---- MODULE Spec2Model ----
(***************************************************************************)
(* A model of the batch payout settlement pipeline of zoneless-node:       *)
(* Payouts.processBatch (one round: list, build, sign, broadcast) and      *)
(* Payouts.processAll (the loop over rounds), run against the payout       *)
(* server the client talks to.  Every remote call is one step: the         *)
(* request is sent and the server's answer is received, and the client     *)
(* code that follows the await runs up to the next await.                  *)
(***************************************************************************)
EXTENDS Integers, Sequences, FiniteSets, TLC

\* ------------------------------------------------------------------ bounds

\* Payout identifiers the server can hold.
MaxPayouts == 11
\* Rounds of one invocation whose calls the history variable records.
MaxRounds == 3
\* Payouts created on the server while an invocation runs.
MaxCreated == 1
\* Payouts pending when two invocations are started side by side.
MaxShared == 6
\* v1 pairs in a webhook signature header.
MaxSignatures == 2
\* Required signers of a transaction.
MaxSigners == 2

\* ------------------------------------------------------- program constants

\* Math.min(options?.limit ?? 10, 10): the default and the cap of the limit.
DefaultLimit == 10
MaxBatch == 10

\* ------------------------------------------------------------ value sets

Clients == {1, 2}
Ids == 1..MaxPayouts

\* options.limit of processBatch: <<>> is "not given", <<n>> is the number n.
LimitOptions == {<<>>, <<0>>, <<1>>, <<3>>, <<10>>, <<11>>, <<25>>}

\* The largest page the server itself is willing to answer with.
ServerPageCaps == {5, 100}

\* Errors a remote call can be rejected with (the signer throws "bad_key" or
\* "bad_transaction" of its own).
RemoteErrors == {"api_error", "timeout"}
Undefined == "undefined"

Min(a, b) == IF a < b THEN a ELSE b

\* ------------------------------------------------------------------ state

VARIABLES
  status,            \* server: the status of every payout identifier
  pageCap,           \* server: its own page size cap
  created,           \* server: payouts created since the invocations started
  mode,              \* client: "off", "all" (processAll) or "batch" (processBatch)
  limitOpt,          \* client: options.limit of the processBatch call
  secretOk,          \* client: whether secretKey decodes to a keypair
  requestOptions,    \* client: the request options the caller passed
  pc,                \* client: the await the invocation is at, or how it ended
  pendingPayouts,    \* processBatch: the list response
  payoutIds,         \* processBatch: the identifiers mapped from the response
  buildResult,       \* processBatch: the build response
  signedTransaction, \* processBatch: the signer's output
  results,           \* processAll: the accumulated results
  hasMore,           \* processAll: the loop variable
  ret,               \* what the last completed processBatch returned
  err,               \* the error the invocation threw, if it did
  round,             \* history: the number of the current round
  trace,             \* history: the calls made and the rounds returned
  faithful,          \* history: every list answer so far was the true page
  webhook,           \* one Webhooks.constructEvent call: its arguments and how far it is
  signing,           \* one Payouts.SignTransaction call on an encoded transaction
  http               \* one BalanceTransactions call and the request it sends

payoutVars == <<status, pageCap, created, mode, limitOpt, secretOk, requestOptions, pc,
                pendingPayouts,                payoutIds, buildResult, signedTransaction, results, hasMore, ret, err,
                round, trace, faithful>>

\* The calls that are independent of the payout pipeline.
localVars == <<webhook, signing, http>>

vars == <<payoutVars, localVars>>

\* A call that is not being made.
Off == [pc |-> "off"]


\* ------------------------------------------------------------- HttpClient

\* An object is a function from its property names; a property that is not
\* there reads as undefined, and so does every property of undefined, which
\* is the object without properties.
NoObject == <<>>
Has(object, name) == name \in DOMAIN object
Truthy(value) == value # Undefined /\ value # ""

\* options?.zonelessAccount and the like.
StringProperty(object, name) == IF Has(object, name) THEN object[name] ELSE Undefined

\* options?.headers
ObjectProperty(object, name) == IF Has(object, name) THEN object[name] ELSE NoObject

ApiKey == "sk_test"

\* part_012:76-100: the method, the headers and the body of the request that
\* is sent.
RequestSent(options) ==
  LET base == ObjectProperty(options, "headers")
                @@ ("x-api-key" :> ApiKey @@ "Content-Type" :> "application/json")
      withKey == IF Truthy(StringProperty(options, "idempotencyKey"))
                   THEN ("idempotency-key" :> options.idempotencyKey) @@ base
                   ELSE base
      headers == IF Truthy(StringProperty(options, "zonelessAccount"))
                   THEN ("zoneless-account" :> options.zonelessAccount) @@ withKey
                   ELSE withKey
  IN  [method |-> options.method, path |-> options.path, query |-> options.query,
       headers |-> headers,
       body |-> IF Has(options, "body") /\ options.method # "GET"
                  THEN options.body ELSE NoObject]

\* A GET that hands the idempotency key on like a POST does.
GetWithIdempotencyKey(path, query, options) ==
  RequestSent("method" :> "GET" @@ "path" :> path @@ "query" :> query
                @@ (IF Has(options, "headers")
                      THEN "headers" :> options.headers ELSE NoObject)
                @@ "idempotencyKey" :> StringProperty(options, "idempotencyKey")
                @@ "zonelessAccount" :> StringProperty(options, "zonelessAccount"))

\* part_012:133-145
Get(path, query, options) ==
  RequestSent("method" :> "GET" @@ "path" :> path @@ "query" :> query
                @@ (IF Has(options, "headers")
                      THEN "headers" :> options.headers ELSE NoObject)
                @@ "zonelessAccount" :> StringProperty(options, "zonelessAccount"))

\* part_012:150-159
Post(path, body, options) ==
  RequestSent("method" :> "POST" @@ "path" :> path @@ "query" :> NoObject
                @@ "body" :> body
                @@ (IF Has(options, "headers")
                      THEN "headers" :> options.headers ELSE NoObject)
                @@ "idempotencyKey" :> StringProperty(options, "idempotencyKey")
                @@ "zonelessAccount" :> StringProperty(options, "zonelessAccount"))

\* Payouts.ts:47-53 and 263-272: the request of list({ status: 'pending', limit }).
ListRequest(limit, options) ==
  Get(<<"/payouts">>, "limit" :> limit @@ "status" :> "pending", options)

\* Payouts.ts:78-87: the request of build({ payouts }).
BuildRequest(ids, options) == Post(<<"/payouts/build">>, "payouts" :> ids, options)

\* Payouts.ts:108-117: the request of broadcast({ signed_transaction, payouts }).
BroadcastRequest(tx, ids, options) ==
  Post(<<"/payouts/broadcast">>, "signed_transaction" :> tx @@ "payouts" :> ids, options)

\* ----------------------------------------------------------------- server

\* A payout object as the server sends it.
Amount(i) == 100 + i
PayoutObject(st, i) == [id |-> i, status |-> st[i], amount |-> Amount(i)]

\* The pending payouts in the server's order (newest first).
RECURSIVE PendingFrom(_, _)
PendingFrom(st, i) ==
  IF i = 0 THEN <<>>
  ELSE (IF st[i] = "pending" THEN <<i>> ELSE <<>>) \o PendingFrom(st, i - 1)

PendingList(st) == PendingFrom(st, MaxPayouts)

\* GET /payouts?status=pending&limit=n, answered truly: the first n pending
\* payouts (no more than the server's own page cap) and whether more exist.
TruePage(st, cap, limit) ==
  LET all == PendingList(st)
      k   == Min(Min(limit, cap), Len(all))
  IN  [ok |-> TRUE, error |-> Undefined,
       data |-> [j \in 1..k |-> PayoutObject(st, all[j])],
       has_more |-> Len(all) > k]

RemoteFailures ==
  {[ok |-> FALSE, error |-> e] : e \in RemoteErrors}

\* Every answer the list call can get: the true page, the true page with the
\* other has_more, an empty page with either has_more, or a failure.  A limit
\* below 1 is rejected.
ListAnswers(st, cap, limit) ==
  IF limit < 1 THEN RemoteFailures
  ELSE LET page == TruePage(st, cap, limit)
       IN  {[page EXCEPT !.has_more = h] : h \in BOOLEAN}
             \cup {[page EXCEPT !.data = <<>>, !.has_more = h] : h \in BOOLEAN}
             \cup RemoteFailures

RECURSIVE SumAmounts(_)
SumAmounts(ids) ==
  IF ids = <<>> THEN 0 ELSE Amount(Head(ids)) + SumAmounts(Tail(ids))

\* A transaction: the payouts its message pays, the signatures it carries,
\* and whether its encoding parses as a transaction.
Transaction(ids, wellFormed) ==
  [payouts |-> ids, signatures |-> 0, parses |-> wellFormed]

\* POST /payouts/build: an unsigned transaction for the identifiers, or a failure.
BuildAnswers(st, ids) ==
  {[ok |-> TRUE, error |-> Undefined,
    unsigned_transaction |-> Transaction(ids, w),
    total_amount |-> SumAmounts(ids)] : w \in BOOLEAN}
    \cup RemoteFailures

\* What an answered broadcast does to the payouts it includes: "paid" and
\* "failed" settle the pending ones (Payouts.ts:91), "kept" answers with status
\* 'failed' and leaves them pending, to be listed again.
BroadcastOutcomes == {"paid", "failed", "kept"}

Settle(st, ids, outcome) ==
  LET S == {ids[j] : j \in 1..Len(ids)}
  IN  [i \in Ids |->
         IF i \in S /\ st[i] = "pending" /\ outcome # "kept" THEN outcome ELSE st[i]]

\* POST /payouts/broadcast: the answer for an outcome, with the updated payouts.
BroadcastAnswer(st, ids, outcome) ==
  LET st2 == Settle(st, ids, outcome)
  IN  [ok |-> TRUE, error |-> Undefined,
       signature |-> "sig",
       status |-> IF outcome = "paid" THEN "paid" ELSE "failed",
       viewer_url |-> "url",
       payouts |-> [j \in 1..Len(ids) |-> PayoutObject(st2, ids[j])],
       failure_message |-> IF outcome = "paid" THEN Undefined ELSE "message"]

\* ----------------------------------------------------------------- client

\* The limit without its cap.
EffectiveLimitUnclamped(opt) == IF opt = <<>> THEN DefaultLimit ELSE opt[1]

\* Payouts.ts:155
EffectiveLimit(opt) ==
  Min(IF opt = <<>> THEN DefaultLimit ELSE opt[1], MaxBatch)

\* Payouts.ts:164-173
ZeroResult ==
  [signature |-> "", status |-> "paid", viewer_url |-> "", payouts |-> <<>>,
   total_amount |-> 0, has_more |-> FALSE, failure_message |-> Undefined]

\* The empty page not told apart from the others.
IsEmptyPageNever(list) == FALSE

\* Payouts.ts:164
IsEmptyPage(list) == Len(list.data) = 0

\* The identifiers taken from the page last to first.
PayoutIdsReversed(data) == [j \in 1..Len(data) |-> data[Len(data) + 1 - j].id]

\* Payouts.ts:175
PayoutIdsOf(data) == [j \in 1..Len(data) |-> data[j].id]

\* A signer that signs whatever it is given.
SignerAcceptsAnything(tx, keyOk) == TRUE

\* Payouts.ts:256-258: the key decodes to a keypair and the blob to a transaction.
SignerAccepts(tx, keyOk) == keyOk /\ tx.parses

\* Payouts.ts:259-260
SignTransaction(tx) == [tx EXCEPT !.signatures = @ + 1]

\* The result of a round without the payouts of the broadcast answer.
BatchResultWithoutPayouts(list, build, bc) ==
  [signature |-> bc.signature, status |-> bc.status, viewer_url |-> bc.viewer_url,
   payouts |-> <<>>, total_amount |-> build.total_amount,
   has_more |-> list.has_more, failure_message |-> bc.failure_message]

\* A round that reports every answered broadcast as paid.
BatchResultAlwaysPaid(list, build, bc) ==
  [signature |-> bc.signature, status |-> "paid", viewer_url |-> bc.viewer_url,
   payouts |-> bc.payouts, total_amount |-> build.total_amount,
   has_more |-> list.has_more, failure_message |-> Undefined]

\* Payouts.ts:195-203
BatchResult(list, build, bc) ==
  [signature |-> bc.signature, status |-> bc.status, viewer_url |-> bc.viewer_url,
   payouts |-> bc.payouts, total_amount |-> build.total_amount,
   has_more |-> list.has_more, failure_message |-> bc.failure_message]

\* Every result pushed, the zero result too.
AccumulateAlways(rs, r) == Append(rs, r)

\* Payouts.ts:235-237
Accumulate(rs, r) == IF Len(r.payouts) > 0 THEN Append(rs, r) ELSE rs

\* The loop going on for as long as a round paid something.
LoopAgainWhileNonEmpty(r) == Len(r.payouts) > 0

\* Payouts.ts:239 and the loop test of line 232
LoopAgain(r) == r.has_more

\* ---------------------------------------------------------------- history

\* The history keeps the calls of the first MaxRounds rounds of an invocation.
Log(c, evs) == IF round[c] <= MaxRounds THEN trace[c] \o evs ELSE trace[c]

\* The results array is unbounded; the model keeps its first MaxRounds entries.
Keep(rs) == SubSeq(rs, 1, Min(Len(rs), MaxRounds))

NextRound(n) == Min(n + 1, MaxRounds + 1)

NoList == [ok |-> TRUE, error |-> Undefined, data |-> <<>>, has_more |-> FALSE]
NoBuild == [ok |-> TRUE, error |-> Undefined,
            unsigned_transaction |-> Transaction(<<>>, FALSE), total_amount |-> 0]
NoTransaction == Transaction(<<>>, FALSE)

Running == {"list", "build", "sign", "broadcast"}

\* ------------------------------------------------------- steps of the code

\* The locals of processBatch go out of scope when it returns or throws.
DropLocals(c) ==
  /\ pendingPayouts' = [pendingPayouts EXCEPT ![c] = NoList]
  /\ payoutIds' = [payoutIds EXCEPT ![c] = <<>>]
  /\ buildResult' = [buildResult EXCEPT ![c] = NoBuild]
  /\ signedTransaction' = [signedTransaction EXCEPT ![c] = NoTransaction]

\* The error caught by processAll, which returns what it has.
ThrownSwallowed(c, e, evs) ==
  /\ pc' = [pc EXCEPT ![c] = IF mode[c] = "all" THEN "done" ELSE "threw"]
  /\ err' = [err EXCEPT ![c] = IF mode[c] = "all" THEN @ ELSE e]
  /\ trace' = [trace EXCEPT ![c] = Log(c, evs)]
  /\ DropLocals(c)
  /\ UNCHANGED <<results, hasMore, ret, round>>

\* The failed round started again from its list call.
ThrownRetried(c, e, evs) ==
  /\ pc' = [pc EXCEPT ![c] = "list"]
  /\ trace' = [trace EXCEPT ![c] = Log(c, evs)]
  /\ DropLocals(c)
  /\ UNCHANGED <<err, results, hasMore, ret, round>>

\* Payouts.ts:159-193 and 232-240: no await is wrapped in a try/catch, so a
\* rejected call or a throwing signer ends processBatch and processAll with
\* that error.
Thrown(c, e, evs) ==
  /\ pc' = [pc EXCEPT ![c] = "threw"]
  /\ err' = [err EXCEPT ![c] = e]
  /\ trace' = [trace EXCEPT ![c] = Log(c, evs)]
  /\ DropLocals(c)
  /\ UNCHANGED <<results, hasMore, ret, round>>

\* processBatch returns r.  Called directly, that ends the invocation; inside
\* processAll (Payouts.ts:233-240) r is accumulated and decides the next round.
Returned(c, r, evs) ==
  LET back == [op |-> "return", round |-> round[c], result |-> r]
  IN  /\ ret' = [ret EXCEPT ![c] = r]
      /\ trace' = [trace EXCEPT ![c] = Log(c, evs \o <<back>>)]
      /\ DropLocals(c)
      /\ UNCHANGED err
      /\ IF mode[c] = "batch"
           THEN /\ pc' = [pc EXCEPT ![c] = "done"]
                /\ UNCHANGED <<results, hasMore, round>>
           ELSE /\ results' = [results EXCEPT ![c] = Keep(Accumulate(@, r))]
                /\ hasMore' = [hasMore EXCEPT ![c] = LoopAgain(r)]
                /\ pc' = [pc EXCEPT ![c] = IF LoopAgain(r) THEN "list" ELSE "done"]
                /\ round' = [round EXCEPT ![c] = IF LoopAgain(r) THEN NextRound(@) ELSE @]

\* Step 1, Payouts.ts:155-175: the list call and what follows its answer, for
\* the answers the server chooses among.
ListCallWith(c, TrueOnly) ==
  /\ pc[c] = "list"
  /\ LET limit == EffectiveLimit(limitOpt[c])
         answers == IF TrueOnly /\ limit >= 1
                      THEN {TruePage(status, pageCap, limit)} \cup RemoteFailures
                      ELSE ListAnswers(status, pageCap, limit)
     IN  \E ans \in answers :
           LET ev == [op |-> "list", round |-> round[c], limit |-> limit,
                      ok |-> ans.ok, error |-> ans.error,
                      ids |-> IF ans.ok THEN [j \in 1..Len(ans.data) |-> ans.data[j].id]
                              ELSE <<>>,
                      has_more |-> ans.ok /\ ans.has_more,
                      headers |-> ListRequest(limit, requestOptions[c]).headers]
           IN  /\ faithful' = [faithful EXCEPT ![c] =
                                 @ /\ (ans.ok => ans = TruePage(status, pageCap, limit))]
               /\ IF ~ans.ok
                    THEN Thrown(c, ans.error, <<ev>>)
                    ELSE IF IsEmptyPage(ans)
                           THEN Returned(c, ZeroResult, <<ev>>)
                           ELSE /\ pendingPayouts' = [pendingPayouts EXCEPT ![c] = ans]
                                /\ payoutIds' = [payoutIds EXCEPT ![c] = PayoutIdsOf(ans.data)]
                                /\ pc' = [pc EXCEPT ![c] = "build"]
                                /\ trace' = [trace EXCEPT ![c] = Log(c, <<ev>>)]
                                /\ UNCHANGED <<buildResult, signedTransaction, results,
                                               hasMore, ret, err, round>>
  /\ UNCHANGED <<status, pageCap, created, mode, limitOpt, secretOk, requestOptions>>
  /\ UNCHANGED localVars

ListCall(c) == ListCallWith(c, FALSE)

\* The secret key decoded before the build call is made.
BuildCallDecodingKeyFirst(c) ==
  /\ pc[c] = "build"
  /\ IF ~secretOk[c]
       THEN Thrown(c, "bad_key", <<>>)
       ELSE \E ans \in BuildAnswers(status, payoutIds[c]) :
              LET ev == [op |-> "build", round |-> round[c], ids |-> payoutIds[c],
                         ok |-> ans.ok, error |-> ans.error,
                         total_amount |-> IF ans.ok THEN ans.total_amount ELSE 0,
                         headers |-> BuildRequest(payoutIds[c], requestOptions[c]).headers]
              IN  IF ~ans.ok
                    THEN Thrown(c, ans.error, <<ev>>)
                    ELSE /\ buildResult' = [buildResult EXCEPT ![c] = ans]
                         /\ pc' = [pc EXCEPT ![c] = "sign"]
                         /\ trace' = [trace EXCEPT ![c] = Log(c, <<ev>>)]
                         /\ UNCHANGED <<pendingPayouts, payoutIds, signedTransaction,
                                        results, hasMore, ret, err, round>>
  /\ UNCHANGED <<status, pageCap, created, mode, limitOpt, secretOk, requestOptions,
                 faithful>>
  /\ UNCHANGED localVars

\* Step 2, Payouts.ts:178: the build call.
BuildCall(c) ==
  /\ pc[c] = "build"
  /\ \E ans \in BuildAnswers(status, payoutIds[c]) :
       LET ev == [op |-> "build", round |-> round[c], ids |-> payoutIds[c],
                  ok |-> ans.ok, error |-> ans.error,
                  total_amount |-> IF ans.ok THEN ans.total_amount ELSE 0,
                  headers |-> BuildRequest(payoutIds[c], requestOptions[c]).headers]
       IN  IF ~ans.ok
             THEN Thrown(c, ans.error, <<ev>>)
             ELSE /\ buildResult' = [buildResult EXCEPT ![c] = ans]
                  /\ pc' = [pc EXCEPT ![c] = "sign"]
                  /\ trace' = [trace EXCEPT ![c] = Log(c, <<ev>>)]
                  /\ UNCHANGED <<pendingPayouts, payoutIds, signedTransaction,
                                 results, hasMore, ret, err, round>>
  /\ UNCHANGED <<status, pageCap, created, mode, limitOpt, secretOk, requestOptions,
                 faithful>>
  /\ UNCHANGED localVars

\* The signer started while the build call is still in flight, on whatever
\* buildResult holds at that moment.
SignStepBeforeBuild(c) ==
  /\ pc[c] \in {"build", "sign"}
  /\ LET tx == buildResult[c].unsigned_transaction
         ev == [op |-> "sign", round |-> round[c], key_ok |-> secretOk[c],
                parses |-> tx.parses, ok |-> TRUE, error |-> Undefined]
     IN  /\ signedTransaction' = [signedTransaction EXCEPT ![c] = SignTransaction(tx)]
         /\ pc' = [pc EXCEPT ![c] = "broadcast"]
         /\ trace' = [trace EXCEPT ![c] = Log(c, <<ev>>)]
         /\ UNCHANGED <<pendingPayouts, payoutIds, buildResult, results,
                        hasMore, ret, err, round>>
  /\ UNCHANGED <<status, pageCap, created, mode, limitOpt, secretOk, requestOptions,
                 faithful>>
  /\ UNCHANGED localVars

\* Step 3, Payouts.ts:181-184 and 252-261: the local signer.
SignStep(c) ==
  /\ pc[c] = "sign"
  /\ LET tx == buildResult[c].unsigned_transaction
         ok == SignerAccepts(tx, secretOk[c])
         e  == IF ok THEN Undefined
               ELSE IF secretOk[c] THEN "bad_transaction" ELSE "bad_key"
         ev == [op |-> "sign", round |-> round[c], key_ok |-> secretOk[c],
                parses |-> tx.parses, ok |-> ok, error |-> e]
     IN  IF ~ok
           THEN Thrown(c, e, <<ev>>)
           ELSE /\ signedTransaction' = [signedTransaction EXCEPT ![c] = SignTransaction(tx)]
                /\ pc' = [pc EXCEPT ![c] = "broadcast"]
                /\ trace' = [trace EXCEPT ![c] = Log(c, <<ev>>)]
                /\ UNCHANGED <<pendingPayouts, payoutIds, buildResult, results,
                               hasMore, ret, err, round>>
  /\ UNCHANGED <<status, pageCap, created, mode, limitOpt, secretOk, requestOptions,
                 faithful>>
  /\ UNCHANGED localVars

\* Step 4, Payouts.ts:187-203: the broadcast call and the result of the round.
BroadcastCall(c) ==
  /\ pc[c] = "broadcast"
  /\ LET ev(ans) == [op |-> "broadcast", round |-> round[c], ids |-> payoutIds[c],
                     signatures |-> signedTransaction[c].signatures,
                     ok |-> ans.ok, error |-> ans.error, answer |-> ans,
                     headers |-> BroadcastRequest(signedTransaction[c], payoutIds[c],
                                                  requestOptions[c]).headers]
     IN  \/ \E f \in RemoteFailures :
              /\ Thrown(c, f.error, <<ev(f)>>)
              /\ UNCHANGED status
         \/ \E o \in BroadcastOutcomes :
              LET ans == BroadcastAnswer(status, payoutIds[c], o)
              IN  /\ status' = Settle(status, payoutIds[c], o)
                  /\ Returned(c, BatchResult(pendingPayouts[c], buildResult[c], ans),
                              <<ev(ans)>>)
  /\ UNCHANGED <<pageCap, created, mode, limitOpt, secretOk, requestOptions, faithful>>
  /\ UNCHANGED localVars

\* The server creates a payout while an invocation is running.
CreatePayout ==
  /\ created < MaxCreated
  /\ \E c \in Clients : pc[c] \in Running
  /\ \E i \in Ids :
       /\ status[i] = "none"
       /\ \A j \in Ids : j < i => status[j] # "none"
       /\ status' = [status EXCEPT ![i] = "pending"]
  /\ created' = created + 1
  /\ UNCHANGED <<pageCap, mode, limitOpt, secretOk, requestOptions, pc, pendingPayouts,
                 payoutIds,                 buildResult, signedTransaction, results, hasMore, ret, err,
                 round, trace, faithful>>
  /\ UNCHANGED localVars

\* ---------------------------------------------------------- specification

\* One invocation by client 1 (processAll, or processBatch with any limit
\* option), against a server holding any number of pending payouts.
Init ==
  /\ \E n \in 0..MaxPayouts :
       status = [i \in Ids |-> IF i <= n THEN "pending" ELSE "none"]
  /\ pageCap \in ServerPageCaps
  /\ created = 0
  /\ \E m \in {"all", "batch"} : mode = [c \in Clients |-> IF c = 1 THEN m ELSE "off"]
  /\ \E o \in LimitOptions :
       limitOpt = [c \in Clients |-> IF mode[c] = "batch" THEN o ELSE <<>>]
  /\ \E k \in BOOLEAN : secretOk = [c \in Clients |-> k]
  /\ requestOptions = [c \in Clients |-> NoObject]
  /\ pc = [c \in Clients |-> IF mode[c] = "off" THEN "off" ELSE "list"]
  /\ pendingPayouts = [c \in Clients |-> NoList]
  /\ payoutIds = [c \in Clients |-> <<>>]
  /\ buildResult = [c \in Clients |-> NoBuild]
  /\ signedTransaction = [c \in Clients |-> NoTransaction]
  /\ results = [c \in Clients |-> <<>>]
  /\ hasMore = [c \in Clients |-> TRUE]
  /\ ret = [c \in Clients |-> ZeroResult]
  /\ err = [c \in Clients |-> Undefined]
  /\ round = [c \in Clients |-> 1]
  /\ trace = [c \in Clients |-> <<>>]
  /\ faithful = [c \in Clients |-> TRUE]
  /\ webhook = Off /\ signing = Off /\ http = Off

Next ==
  \/ \E c \in Clients : ListCall(c)
  \/ \E c \in Clients : BuildCall(c)
  \/ \E c \in Clients : SignStep(c)
  \/ \E c \in Clients : BroadcastCall(c)
  \/ CreatePayout

Spec == Init /\ [][Next]_vars

\* The same invocation against a server that creates no payout meanwhile and
\* answers every list call with its true page or a failure.  Every call is
\* answered and the runtime resumes the invocation after each answer, so a
\* step that stays possible is taken.
\* The list call held back while another invocation is in the middle of a round.
ListCallTrueExclusive(c) ==
  /\ \A d \in Clients \ {c} : pc[d] \notin {"build", "sign", "broadcast"}
  /\ ListCallWith(c, TRUE)

ListCallTrue(c) == ListCallWith(c, TRUE)

NextLive ==
  \/ \E c \in Clients : ListCallTrue(c)
  \/ \E c \in Clients : BuildCall(c)
  \/ \E c \in Clients : SignStep(c)
  \/ \E c \in Clients : BroadcastCall(c)

LiveSpec == Init /\ [][NextLive]_vars /\ WF_vars(NextLive)

\* Two processAll invocations started by two callers on the same account: each
\* is its own call of Payouts.ts:225-243 with its own locals, and the two
\* share nothing but the server.  Their steps interleave in any order.
InitConcurrent ==
  /\ \E n \in 1..MaxShared :
       status = [i \in Ids |-> IF i <= n THEN "pending" ELSE "none"]
  /\ pageCap \in ServerPageCaps
  /\ created = 0
  /\ mode = [c \in Clients |-> "all"]
  /\ limitOpt = [c \in Clients |-> <<>>]
  /\ \E k \in BOOLEAN : secretOk = [c \in Clients |-> k]
  /\ requestOptions = [c \in Clients |-> NoObject]
  /\ pc = [c \in Clients |-> "list"]
  /\ pendingPayouts = [c \in Clients |-> NoList]
  /\ payoutIds = [c \in Clients |-> <<>>]
  /\ buildResult = [c \in Clients |-> NoBuild]
  /\ signedTransaction = [c \in Clients |-> NoTransaction]
  /\ results = [c \in Clients |-> <<>>]
  /\ hasMore = [c \in Clients |-> TRUE]
  /\ ret = [c \in Clients |-> ZeroResult]
  /\ err = [c \in Clients |-> Undefined]
  /\ round = [c \in Clients |-> 1]
  /\ trace = [c \in Clients |-> <<>>]
  /\ faithful = [c \in Clients |-> TRUE]
  /\ webhook = Off /\ signing = Off /\ http = Off

ConcurrentSpec == InitConcurrent /\ [][NextLive]_vars

\* The caller invoking processAll again with the first page the aborted
\* invocation had listed, instead of listing anew.
ReinvokeFromFirstPage ==
  /\ pc[1] = "threw" /\ mode[1] = "all" /\ mode[2] = "off"
  /\ Len(trace[1]) > 0 /\ trace[1][1].ok /\ trace[1][1].ids # <<>>
  /\ mode' = [mode EXCEPT ![2] = "all"]
  /\ pc' = [pc EXCEPT ![2] = "build"]
  /\ payoutIds' = [payoutIds EXCEPT ![2] = trace[1][1].ids]
  /\ UNCHANGED <<status, pageCap, created, limitOpt, secretOk, requestOptions,
                 pendingPayouts,                 buildResult, signedTransaction, results, hasMore, ret, err,
                 round, trace, faithful>>
  /\ UNCHANGED localVars

\* After processAll has thrown, the caller invokes processAll again: a new
\* call of Payouts.ts:225-243, which starts with fresh locals at the list call
\* of its first round.
Reinvoke ==
  /\ pc[1] = "threw" /\ mode[1] = "all" /\ mode[2] = "off"
  /\ mode' = [mode EXCEPT ![2] = "all"]
  /\ pc' = [pc EXCEPT ![2] = "list"]
  /\ UNCHANGED <<status, pageCap, created, limitOpt, secretOk, requestOptions,
                 pendingPayouts,                 payoutIds, buildResult, signedTransaction, results, hasMore,
                 ret, err, round, trace, faithful>>
  /\ UNCHANGED localVars

NextRetry ==
  \/ \E c \in Clients : ListCallTrue(c)
  \/ \E c \in Clients : BuildCall(c)
  \/ \E c \in Clients : SignStep(c)
  \/ \E c \in Clients : BroadcastCall(c)
  \/ Reinvoke

RetrySpec == Init /\ [][NextRetry]_vars

\* The request options a caller passes: none, an idempotency key, an empty
\* idempotency key, or a key together with a connected account and a header
\* of the caller's own.
RequestOptionChoices ==
  {NoObject,
   "idempotencyKey" :> "key_1",
   "idempotencyKey" :> "",
   "idempotencyKey" :> "key_2" @@ "zonelessAccount" :> "acct_1"
     @@ "headers" :> ("x-request-id" :> "req_1")}

\* One invocation by client 1, processAll(secretKey, options) or
\* processBatch(secretKey, { requestOptions }), with any of the request options.
InitKeyed ==
  /\ \E n \in 0..MaxShared :
       status = [i \in Ids |-> IF i <= n THEN "pending" ELSE "none"]
  /\ pageCap \in ServerPageCaps
  /\ created = 0
  /\ \E m \in {"all", "batch"} : mode = [c \in Clients |-> IF c = 1 THEN m ELSE "off"]
  /\ limitOpt = [c \in Clients |-> <<>>]
  /\ \E k \in BOOLEAN : secretOk = [c \in Clients |-> k]
  /\ \E o \in RequestOptionChoices :
       requestOptions = [c \in Clients |-> IF c = 1 THEN o ELSE NoObject]
  /\ pc = [c \in Clients |-> IF mode[c] = "off" THEN "off" ELSE "list"]
  /\ pendingPayouts = [c \in Clients |-> NoList]
  /\ payoutIds = [c \in Clients |-> <<>>]
  /\ buildResult = [c \in Clients |-> NoBuild]
  /\ signedTransaction = [c \in Clients |-> NoTransaction]
  /\ results = [c \in Clients |-> <<>>]
  /\ hasMore = [c \in Clients |-> TRUE]
  /\ ret = [c \in Clients |-> ZeroResult]
  /\ err = [c \in Clients |-> Undefined]
  /\ round = [c \in Clients |-> 1]
  /\ trace = [c \in Clients |-> <<>>]
  /\ faithful = [c \in Clients |-> TRUE]
  /\ webhook = Off /\ signing = Off /\ http = Off

KeyedSpec == InitKeyed /\ [][Next]_vars

\* ------------------------------------------------- Webhooks.constructEvent

\* A string is a sequence of pieces: a piece of text, the decimal digits of a
\* number (after some leading zeros), or the 64 hex characters of a digest.
Text(s) == [k |-> "text", n |-> 0, s |-> s, m |-> <<>>]
Digits(n, zeros) == [k |-> "digits", n |-> n, s |-> zeros, m |-> <<>>]
HexDigest(key, message) == [k |-> "hex", n |-> 0, s |-> key, m |-> message]

Comma == Text(",")
EqualsSign == Text("=")
Dot == Text(".")

\* String.prototype.split on a one-character separator.
RECURSIVE Split(_, _)
Split(str, sep) ==
  IF str = <<>> THEN << <<>> >>
  ELSE LET rest == Split(Tail(str), sep)
       IN  IF Head(str) = sep
             THEN << <<>> >> \o rest
             ELSE << <<Head(str)>> \o Head(rest) >> \o Tail(rest)

\* parseInt(str, 10): the number the string starts with, <<>> for NaN.
ParseInt(str) ==
  IF str # <<>> /\ Head(str).k = "digits" THEN <<Head(str).n>> ELSE <<>>

\* `${timestamp}` of a number: its decimal digits, or "NaN".
NumberToString(num) ==
  IF num = <<>> THEN <<Text("NaN")>> ELSE <<Digits(num[1], "")>>

\* LoginLinks.ts:51
DEFAULT_TOLERANCE == 300

\* LoginLinks.ts:67: the tolerance parameter, <<>> when the argument is left out.
ToleranceOf(opt) == IF opt = <<>> THEN DEFAULT_TOLERANCE ELSE opt[1]

\* A header key that only remembers the value seen last.
ParseItemKeepLast(acc, item) ==
  LET parts == Split(item, EqualsSign)
      key   == parts[1]
      value == IF Len(parts) >= 2 THEN parts[2] ELSE <<>>
  IN  IF key # <<>> /\ value # <<>>
        THEN [x \in DOMAIN acc \cup {key} |->
                IF x = key THEN [isArray |-> FALSE, items |-> <<value>>] ELSE acc[x]]
        ELSE acc

\* LoginLinks.ts:114-127: the reducer of ParseHeader.  A value of acc is a
\* string (isArray false, one item) or an array of strings.
ParseItem(acc, item) ==
  LET parts == Split(item, EqualsSign)
      key   == parts[1]
      value == IF Len(parts) >= 2 THEN parts[2] ELSE <<>>
  IN  IF key # <<>> /\ value # <<>>
        THEN IF key \in DOMAIN acc
               THEN [acc EXCEPT ![key] =
                       [isArray |-> TRUE, items |-> Append(@.items, value)]]
               ELSE [x \in DOMAIN acc \cup {key} |->
                       IF x = key THEN [isArray |-> FALSE, items |-> <<value>>]
                       ELSE acc[x]]
        ELSE acc

RECURSIVE Reduce(_, _)
Reduce(items, acc) ==
  IF items = <<>> THEN acc ELSE Reduce(Tail(items), ParseItem(acc, Head(items)))

\* LoginLinks.ts:112-131
ParseHeader(header) == Reduce(Split(header, Comma), [x \in {} |-> <<>>])

KeyT == <<Text("t")>>
KeyV1 == <<Text("v1")>>

\* A tolerance window that is closed one second early.
IsStaleAtTolerance(now, timestamp, tolerance) ==
  tolerance > 0 /\ timestamp # <<>> /\ now - timestamp[1] >= tolerance

\* A freshness test that a tolerance of 0 does not switch off.
IsStaleAlways(now, timestamp, tolerance) ==
  timestamp # <<>> /\ now - timestamp[1] > tolerance

\* A freshness test that also rejects timestamps too far in the future and
\* timestamps that are no numbers.
IsStaleTwoSided(now, timestamp, tolerance) ==
  \/ timestamp = <<>>
  \/ /\ tolerance > 0
     /\ \/ now - timestamp[1] > tolerance
        \/ timestamp[1] - now > 0

\* LoginLinks.ts:87: a comparison with NaN is false.
IsStale(now, timestamp, tolerance) ==
  tolerance > 0 /\ timestamp # <<>> /\ now - timestamp[1] > tolerance

\* A signature that does not cover the payload.
SignedPayloadTimestampOnly(timestamp, payload) == NumberToString(timestamp) \o <<Dot>>

\* LoginLinks.ts:91
SignedPayload(timestamp, payload) == NumberToString(timestamp) \o <<Dot>> \o payload

\* LoginLinks.ts:92-95: the hex digest of the HMAC-SHA256 of the message under
\* the secret; different keys or messages give different digests.
ExpectedSignature(key, message) == <<HexDigest(key, message)>>

\* LoginLinks.ts:98-103: equal lengths and equal bytes.
SignatureMatches(sig, expected) == sig = expected

MissingMessage == "Unable to extract timestamp and signatures from header"
ToleranceMessage == "Timestamp outside the tolerance zone"
MismatchMessage == "No signatures found matching the expected signature for payload"

VerificationError(message, checks) ==
  [ok |-> FALSE, name |-> "WebhookSignatureVerificationError", message |-> message,
   checks |-> checks]

\* The signatures compared before the timestamp is looked at.
VerifyComparingFirst(payload, header, secret, tolerance, now) ==
  LET details == ParseHeader(header)
  IN  IF KeyT \notin DOMAIN details \/ KeyV1 \notin DOMAIN details
        THEN VerificationError(MissingMessage, <<"present">>)
        ELSE
          LET timestamp  == ParseInt(details[KeyT].items[1])
              signatures == details[KeyV1].items
              expected   == ExpectedSignature(secret, SignedPayload(timestamp, payload))
              match      == \E j \in 1..Len(signatures) :
                              SignatureMatches(signatures[j], expected)
          IN  IF ~match
                THEN VerificationError(MismatchMessage, <<"present", "match">>)
                ELSE IF IsStale(now, timestamp, tolerance)
                  THEN VerificationError(ToleranceMessage, <<"present", "match", "fresh">>)
                  ELSE [ok |-> TRUE, name |-> Undefined, message |-> Undefined,
                        checks |-> <<"present", "match", "fresh">>]

\* LoginLinks.ts:74-110.  checks lists the tests that were evaluated.
Verify(payload, header, secret, tolerance, now) ==
  LET details == ParseHeader(header)
  IN  IF KeyT \notin DOMAIN details \/ KeyV1 \notin DOMAIN details
        THEN VerificationError(MissingMessage, <<"present">>)
        ELSE
          LET timestampStr == details[KeyT].items[1]
              timestamp    == ParseInt(timestampStr)
          IN  IF IsStale(now, timestamp, tolerance)
                THEN VerificationError(ToleranceMessage, <<"present", "fresh">>)
                ELSE
                  LET expectedSignature ==
                        ExpectedSignature(secret, SignedPayload(timestamp, payload))
                      signatures == details[KeyV1].items
                      match == \E j \in 1..Len(signatures) :
                                 SignatureMatches(signatures[j], expectedSignature)
                  IN  IF ~match
                        THEN VerificationError(MismatchMessage,
                                               <<"present", "fresh", "match">>)
                        ELSE [ok |-> TRUE, name |-> Undefined, message |-> Undefined,
                              checks |-> <<"present", "fresh", "match">>]

\* The payloads of the calls: two JSON documents and a text that is no JSON.
PayloadA == <<Text("{\"id\":\"evt_1\"}")>>
PayloadB == <<Text("{\"id\":\"evt_2\"}")>>
PayloadNotJson == <<Text("evt_3")>>
Payloads == {PayloadA, PayloadB, PayloadNotJson}

NoEvent == [id |-> Undefined]
NoError == [name |-> Undefined, message |-> Undefined]

\* JSON.parse of LoginLinks.ts:71: the event, or a SyntaxError.
JsonParse(str) ==
  IF str = PayloadA THEN [ok |-> TRUE, value |-> [id |-> "evt_1"]]
  ELSE IF str = PayloadB THEN [ok |-> TRUE, value |-> [id |-> "evt_2"]]
  ELSE [ok |-> FALSE, value |-> NoEvent]

\* The payload parsed before it is verified, and its event returned whatever
\* the verification says.
VerifyStepParsingFirst ==
  /\ webhook.pc = "verify"
  /\ LET parsed == JsonParse(webhook.payload)
     IN  webhook' =
           [webhook EXCEPT
              !.pc = IF parsed.ok THEN "returned" ELSE "threw",
              !.checks = <<"parse">>,
              !.error = IF parsed.ok THEN NoError
                        ELSE [name |-> "SyntaxError", message |-> "Unexpected token"],
              !.event = parsed.value]
  /\ UNCHANGED <<payoutVars, signing, http>>

\* LoginLinks.ts:69-70: constructEvent up to the end of Verify.
VerifyStep ==
  /\ webhook.pc = "verify"
  /\ LET v == Verify(webhook.payload, webhook.header, webhook.secret,
                     ToleranceOf(webhook.tolerance), webhook.now)
     IN  webhook' =
           [webhook EXCEPT
              !.pc = IF v.ok THEN "parse" ELSE "threw",
              !.checks = v.checks,
              !.error = IF v.ok THEN NoError
                        ELSE [name |-> v.name, message |-> v.message]]
  /\ UNCHANGED <<payoutVars, signing, http>>

\* LoginLinks.ts:71: the verified payload is parsed and returned.
ParseStep ==
  /\ webhook.pc = "parse"
  /\ LET parsed == JsonParse(webhook.payload)
     IN  webhook' =
           [webhook EXCEPT
              !.pc = IF parsed.ok THEN "returned" ELSE "threw",
              !.checks = Append(@, "parse"),
              !.error = IF parsed.ok THEN NoError
                        ELSE [name |-> "SyntaxError", message |-> "Unexpected token"],
              !.event = parsed.value]
  /\ UNCHANGED <<payoutVars, signing, http>>

\* No payout invocation is being made.
NoInvocation ==
  /\ status = [i \in Ids |-> "none"]
  /\ pageCap = 100
  /\ created = 0
  /\ mode = [c \in Clients |-> "off"]
  /\ limitOpt = [c \in Clients |-> <<>>]
  /\ secretOk = [c \in Clients |-> TRUE]
  /\ requestOptions = [c \in Clients |-> NoObject]
  /\ pc = [c \in Clients |-> "off"]
  /\ pendingPayouts = [c \in Clients |-> NoList]
  /\ payoutIds = [c \in Clients |-> <<>>]
  /\ buildResult = [c \in Clients |-> NoBuild]
  /\ signedTransaction = [c \in Clients |-> NoTransaction]
  /\ results = [c \in Clients |-> <<>>]
  /\ hasMore = [c \in Clients |-> TRUE]
  /\ ret = [c \in Clients |-> ZeroResult]
  /\ err = [c \in Clients |-> Undefined]
  /\ round = [c \in Clients |-> 1]
  /\ trace = [c \in Clients |-> <<>>]
  /\ faithful = [c \in Clients |-> TRUE]

\* The secret of the endpoint, and the one it had before it was rotated.
Secret == "whsec_new"
OldSecret == "whsec_old"
Nows == {1000}
\* now - t of the header's first timestamp.
Ages == {-1, 0, 2, 3, 300, 301}
ToleranceOptions == {<<>>, <<0>>, <<2>>, <<-1>>}
TimestampForms == {"none", "digits", "zeros", "trailing", "text", "two", "noise"}

\* The t values of a header, as written.
TimestampStrings(form, t) ==
  CASE form = "none"     -> <<>>
    [] form = "digits"   -> << <<Digits(t, "")>> >>
    [] form = "zeros"    -> << <<Digits(t, "0")>> >>
    [] form = "trailing" -> << <<Digits(t, ""), Text("s")>> >>
    [] form = "text"     -> << <<Text("soon")>> >>
    [] form = "two"      -> << <<Digits(t, "")>>, <<Digits(0, "")>> >>
    [] form = "noise"    -> << <<Digits(t, "")>> >>

\* The v1 values a sender can put in a header for a payload, when the first
\* timestamp of the header reads as timestamp: the signature of any payload
\* under the secret, the signature of the payload under the old secret, or
\* something that is no signature.
Candidates(timestamp, payload) ==
  {ExpectedSignature(Secret, SignedPayload(timestamp, p)) : p \in Payloads}
    \cup {ExpectedSignature(OldSecret, SignedPayload(timestamp, payload)),
          <<Text("junk")>>}

\* The signature a sender makes who signs the t value as it is written in the
\* header, a dot and the payload.
SenderSignature(timestampStr, payload) ==
  ExpectedSignature(Secret, timestampStr \o <<Dot>> \o payload)

RECURSIVE SeqsUpTo(_, _)
SeqsUpTo(S, n) ==
  IF n = 0 THEN {<<>>}
  ELSE LET shorter == SeqsUpTo(S, n - 1)
       IN  shorter \cup {Append(q, x) : q \in shorter, x \in S}

Pair(key, value) == key \o <<EqualsSign>> \o value

RECURSIVE Join(_, _)
Join(items, sep) ==
  IF items = <<>> THEN <<>>
  ELSE IF Len(items) = 1 THEN items[1]
  ELSE items[1] \o <<sep>> \o Join(Tail(items), sep)

\* The header a sender writes: the t pairs, the v1 pairs, and with noise a
\* pair of another scheme, a key without a value and a key without "=".
HeaderOf(ts, sigs, noise) ==
  Join([j \in 1..Len(ts) |-> Pair(KeyT, ts[j])]
         \o (IF noise THEN << Pair(<<Text("v0")>>, <<Text("junk")>>),
                              Pair(KeyV1, <<>>), KeyT >>
             ELSE <<>>)
         \o [j \in 1..Len(sigs) |-> Pair(KeyV1, sigs[j])],
       Comma)

InitWebhook ==
  /\ NoInvocation
  /\ signing = Off /\ http = Off
  /\ \E now \in Nows, age \in Ages, form \in TimestampForms :
       LET ts == TimestampStrings(form, now - age)
           noise == form = "noise"
           timestamp == IF ts = <<>> THEN <<>> ELSE ParseInt(ts[1])
       IN  \E p \in Payloads, tol \in ToleranceOptions :
             \E sigs \in SeqsUpTo(Candidates(timestamp, p)
                                     \cup {SenderSignature(ts[j], p) : j \in 1..Len(ts)},
                                   MaxSignatures) :
               webhook = [pc |-> "verify", payload |-> p,
                          header |-> HeaderOf(ts, sigs, noise), secret |-> Secret,
                          tolerance |-> tol, now |-> now, checks |-> <<>>,
                          error |-> NoError, event |-> NoEvent]

NextWebhook == VerifyStep \/ ParseStep

WebhookSpec == InitWebhook /\ [][NextWebhook]_vars

\* ------------------------------------------------- Payouts.SignTransaction

\* The pieces of an encoded transaction and of an encoded key.
Byte(n) == [k |-> "byte", n |-> n, s |-> "", m |-> <<>>]
PublicKey(key) == [k |-> "pubkey", n |-> key, s |-> "", m |-> <<>>]
\* The 64 bytes of the signature of a message under a key; the signature of
\* no key is the 64 zero bytes of an empty signature slot.
SignatureBytes(key, message) == [k |-> "signature", n |-> key, s |-> "", m |-> message]
EmptySignature == SignatureBytes(0, <<>>)
\* The 64 bytes of a secret key, which end with its public key.
SecretKeyBytes(key) == [k |-> "secretkey", n |-> key, s |-> "", m |-> <<>>]

\* Text in base64 or base58 that decodes to the bytes.
Base64(bytes) == [k |-> "base64", n |-> 0, s |-> "", m |-> bytes]
Base58(bytes) == [k |-> "base58", n |-> 0, s |-> "", m |-> bytes]

\* Buffer.from(text, 'base64'): characters outside the alphabet are skipped.
FromBase64(text) ==
  IF Len(text) = 1 /\ text[1].k = "base64" THEN text[1].m ELSE <<>>

\* buffer.toString('base64')
ToBase64(bytes) == <<Base64(bytes)>>

\* Payouts.ts:256: bs58.decode throws on a character outside the alphabet and
\* Keypair.fromSecretKey on anything that is not the 64 bytes of a secret key.
DecodeKeypair(secretKey) ==
  IF Len(secretKey) = 1 /\ secretKey[1].k = "base58"
       /\ Len(secretKey[1].m) = 1 /\ secretKey[1].m[1].k = "secretkey"
    THEN [ok |-> TRUE, publicKey |-> secretKey[1].m[1].n]
    ELSE [ok |-> FALSE, publicKey |-> 0]

\* The message of a transaction on the wire: the number of required signers,
\* their public keys, and the instructions.
MessageBytes(signers, body) ==
  <<Byte(Len(signers))>> \o [j \in 1..Len(signers) |-> PublicKey(signers[j])]
    \o <<Text(body)>>

\* The wire format: the number of signature slots, the slots, the message.
WireBytes(slots, message) == <<Byte(Len(slots))>> \o slots \o message

NoParse == [ok |-> FALSE, signatures |-> <<>>, message |-> <<>>]

\* Payouts.ts:258, Transaction.from: the signature slots paired with the
\* public keys of the message's signers, an empty slot read as null.
TransactionFrom(bytes) ==
  IF bytes = <<>> \/ bytes[1].k # "byte" THEN NoParse
  ELSE
    LET count   == bytes[1].n
        message == SubSeq(bytes, count + 2, Len(bytes))
    IN  IF Len(bytes) < count + 2 + count + 1 THEN NoParse
        ELSE IF \E j \in 2..(count + 1) : bytes[j].k # "signature" THEN NoParse
        ELSE IF message[1] # Byte(count) THEN NoParse
        ELSE IF \E j \in 2..(count + 1) : message[j].k # "pubkey" THEN NoParse
        ELSE [ok |-> TRUE,
              signatures |-> [j \in 1..count |->
                                [publicKey |-> message[j + 1].n,
                                 signature |-> bytes[j + 1]]],
              message |-> message]

\* Payouts.ts:259, transaction.partialSign(keypair): the slot of the keypair's
\* public key gets the signature of the message; a keypair that is not a
\* signer of the transaction is an "unknown signer".
IsSigner(tx, publicKey) ==
  \E j \in 1..Len(tx.signatures) : tx.signatures[j].publicKey = publicKey

PartialSign(tx, publicKey) ==
  [tx EXCEPT !.signatures =
     [j \in 1..Len(tx.signatures) |->
        IF tx.signatures[j].publicKey = publicKey
          THEN [publicKey |-> publicKey,
                signature |-> SignatureBytes(publicKey, tx.message)]
          ELSE tx.signatures[j]]]

\* Payouts.ts:260, transaction.serialize() with no config: requireAllSignatures
\* and verifySignatures are on, so every slot has to hold the signature of the
\* message under its public key.
FullySigned(tx) ==
  \A j \in 1..Len(tx.signatures) :
    tx.signatures[j].signature = SignatureBytes(tx.signatures[j].publicKey, tx.message)

Serialize(tx) ==
  WireBytes([j \in 1..Len(tx.signatures) |-> tx.signatures[j].signature], tx.message)

\* Payouts.ts:252-261: the signed transaction in base64, or the error thrown.
SignTransactionText(unsignedTransaction, secretKey) ==
  LET keypair == DecodeKeypair(secretKey)
      transaction == TransactionFrom(FromBase64(unsignedTransaction))
  IN  IF ~keypair.ok THEN [ok |-> FALSE, error |-> "bad_key", text |-> <<>>]
      ELSE IF ~transaction.ok
        THEN [ok |-> FALSE, error |-> "bad_transaction", text |-> <<>>]
      ELSE IF ~IsSigner(transaction, keypair.publicKey)
        THEN [ok |-> FALSE, error |-> "unknown_signer", text |-> <<>>]
      ELSE LET signed == PartialSign(transaction, keypair.publicKey)
           IN  IF ~FullySigned(signed)
                 THEN [ok |-> FALSE, error |-> "signature_verification_failed",
                       text |-> <<>>]
                 ELSE [ok |-> TRUE, error |-> Undefined,
                       text |-> ToBase64(Serialize(signed))]

\* The number of signatures a transaction carries.
SignatureCount(tx) ==
  Cardinality({j \in 1..Len(tx.signatures) : tx.signatures[j].signature # EmptySignature})

\* One call of SignTransaction.
SignCall ==
  /\ signing.pc = "sign"
  /\ LET r == SignTransactionText(signing.unsignedTransaction, signing.secretKey)
     IN  signing' = [signing EXCEPT !.pc = IF r.ok THEN "returned" ELSE "threw",
                                    !.error = r.error,
                                    !.signedTransaction = r.text]
  /\ UNCHANGED <<payoutVars, webhook, http>>

\* The receiver of the signed transaction decodes and parses it.
Reparse ==
  /\ signing.pc = "returned"
  /\ signing' = [signing EXCEPT !.pc = "reparsed",
                                !.reparsed = TransactionFrom(FromBase64(signing.signedTransaction))]
  /\ UNCHANGED <<payoutVars, webhook, http>>

Keys == {1, 2, 3}

\* The signers of a transaction: up to MaxSigners different keys, in order.
SignerLists ==
  {q \in SeqsUpTo(Keys, MaxSigners) :
     q # <<>> /\ \A i \in 1..Len(q) : \A j \in 1..Len(q) : q[i] = q[j] => i = j}

\* What a slot can hold for a signer: nothing, the signer's signature, or
\* bytes that are not the signer's signature of the message.
SlotChoices(key, message) ==
  {EmptySignature, SignatureBytes(key, message), SignatureBytes(key, <<Text("other")>>)}

UnsignedTransactions ==
  UNION {
    LET message == MessageBytes(signers, "pay")
    IN  {ToBase64(WireBytes(slots, message)) :
           slots \in {q \in [1..Len(signers) -> UNION {SlotChoices(k, message) : k \in Keys}] :
                        \A j \in 1..Len(signers) : q[j] \in SlotChoices(signers[j], message)}}
    : signers \in SignerLists}
    \cup {<<Text("%%%")>>, ToBase64(<<Byte(1)>>), <<>>}

SecretKeys ==
  {<<Base58(<<SecretKeyBytes(k)>>)>> : k \in Keys}
    \cup {<<Text("0OIl")>>, <<Base58(<<Byte(7)>>)>>}

InitSigner ==
  /\ NoInvocation
  /\ webhook = Off /\ http = Off
  /\ \E tx \in UnsignedTransactions, key \in SecretKeys :
       signing = [pc |-> "sign", unsignedTransaction |-> tx, secretKey |-> key,
                  error |-> Undefined, signedTransaction |-> <<>>, reparsed |-> NoParse]

NextSigner == SignCall \/ Reparse

SignerSpec == InitSigner /\ [][NextSigner]_vars

\* ------------------------------------------------------ BalanceTransactions

\* part_003:42-49
BuildHeaders(options) ==
  IF Truthy(StringProperty(options, "zonelessAccount"))
    THEN "Zoneless-Account" :> options.zonelessAccount
    ELSE NoObject

\* part_003:51-63: the query of list, one entry per parameter.
BuildQuery(params) ==
  [name \in {"limit", "starting_after"} |-> StringProperty(params, name)]

\* part_003:16-26
Retrieve(id, options) ==
  Get(<<"/balance_transactions/", id>>, NoObject, BuildHeaders(options))

\* part_003:29-40
List(params, options) ==
  Get(<<"/balance_transactions">>, BuildQuery(params), BuildHeaders(options))

\* The connected account a request acts for: the value of its zoneless-account
\* header, header names read without regard to case.
ConnectedAccount(request) ==
  IF Has(request.headers, "zoneless-account") THEN request.headers["zoneless-account"]
  ELSE IF Has(request.headers, "Zoneless-Account") THEN request.headers["Zoneless-Account"]
  ELSE Undefined

\* The error property of a response body: its type, message, code and param,
\* each a string or undefined.
ErrorObject(type, message, code, param) ==
  [type |-> type, message |-> message, code |-> code, param |-> param]
NoErrorObject == ErrorObject(Undefined, Undefined, Undefined, Undefined)

\* A response body: text that is no JSON, the JSON value null, or a JSON
\* object, which may have an error property and a message property.
TextBody == [kind |-> "text", hasError |-> FALSE, error |-> NoErrorObject,
             message |-> Undefined]
NullBody == [kind |-> "null", hasError |-> FALSE, error |-> NoErrorObject,
             message |-> Undefined]
ObjectBody(hasError, error, message) ==
  [kind |-> "object", hasError |-> hasError, error |-> error, message |-> message]

Bodies ==
  {TextBody, NullBody,
   ObjectBody(FALSE, NoErrorObject, Undefined),
   ObjectBody(FALSE, NoErrorObject, "Not found"),
   ObjectBody(TRUE, ErrorObject("invalid_request_error", "No such payout",
                                "resource_missing", "id"), Undefined),
   ObjectBody(TRUE, ErrorObject(Undefined, Undefined, Undefined, Undefined), "Not found")}

Statuses == {200, 404, 500}

\* response.ok: a status from 200 to 299.
IsOk(code) == code >= 200 /\ code <= 299

\* What the server can answer: any of the bodies with any of the statuses.
Responses ==
  {[ok |-> IsOk(st), status |-> st, body |-> b] : st \in Statuses, b \in Bodies}

NoResponse == [ok |-> FALSE, status |-> 0, body |-> TextBody]

\* part_012:39-53
ZonelessApiError(type, message, code, param, statusCode) ==
  [name |-> "ZonelessApiError", type |-> type, message |-> message, code |-> code,
   param |-> param, statusCode |-> statusCode]

\* The error of reading a property of null.
TypeError ==
  [name |-> "TypeError", type |-> Undefined,
   message |-> "Cannot read properties of null (reading 'error')",
   code |-> Undefined, param |-> Undefined, statusCode |-> 0]

NoHttpError ==
  [name |-> Undefined, type |-> Undefined, message |-> Undefined, code |-> Undefined,
   param |-> Undefined, statusCode |-> 0]

\* a || b on strings
Or(a, b) == IF Truthy(a) THEN a ELSE b

\* part_012:104-127: what Request does with the response of fetch.  The body
\* is read as JSON first; response.json() of the body null is null, and
\* data.error of null is a TypeError.
HandleResponse(response) ==
  IF response.body.kind = "text"
    THEN [threw |-> TRUE,
          error |-> ZonelessApiError("api_error", "Invalid response from API", Undefined,
                                     Undefined, response.status)]
  ELSE IF ~response.ok
    THEN IF response.body.kind = "null"
           THEN [threw |-> TRUE, error |-> TypeError]
           ELSE LET errorData == IF response.body.hasError THEN response.body.error
                                 ELSE NoErrorObject
                IN  [threw |-> TRUE,
                     error |-> ZonelessApiError(
                                 Or(errorData.type, "api_error"),
                                 Or(errorData.message,
                                    Or(response.body.message, "An error occurred")),
                                 errorData.code, errorData.param, response.status)]
  ELSE [threw |-> FALSE, error |-> NoHttpError]

NoRequest == [method |-> Undefined, path |-> <<>>, query |-> NoObject, headers |-> NoObject,
              body |-> NoObject]

\* The call up to its fetch: part_003:16-40 and part_012:73-102.
SendRequest ==
  /\ http.pc = "call"
  /\ http' = [http EXCEPT
                !.pc = "sent",
                !.request = IF http.call = "retrieve"
                              THEN Retrieve(http.id, http.options)
                              ELSE List(http.params, http.options)]
  /\ UNCHANGED <<payoutVars, webhook, signing>>

\* part_012:104-127: the response is returned as data or thrown as a
\* ZonelessApiError with its status code.
ReceiveResponse ==
  /\ http.pc = "sent"
  /\ \E r \in Responses :
       LET h == HandleResponse(r)
       IN  http' = [http EXCEPT
                      !.pc = IF h.threw THEN "threw" ELSE "returned",
                      !.statusCode = r.status,
                      !.response = r,
                      !.error = h.error]
  /\ UNCHANGED <<payoutVars, webhook, signing>>

Accounts == {"acct_1", "acct_2"}

\* The options argument: left out, empty, or naming a connected account.
AccountOptions ==
  {NoObject} \cup {"zonelessAccount" :> a : a \in Accounts \cup {""}}

ListParams ==
  {NoObject, "limit" :> "10", "starting_after" :> "txn_1",
   "limit" :> "10" @@ "starting_after" :> "txn_1"}

InitHttp ==
  /\ NoInvocation
  /\ webhook = Off /\ signing = Off
  /\ \E options \in AccountOptions :
       \/ \E id \in {"txn_1", "txn_2"} :
            http = [pc |-> "call", call |-> "retrieve", id |-> id, params |-> NoObject,
                    options |-> options, request |-> NoRequest, statusCode |-> 0,
                    response |-> NoResponse, error |-> NoHttpError]
       \/ \E params \in ListParams :
            http = [pc |-> "call", call |-> "list", id |-> "", params |-> params,
                    options |-> options, request |-> NoRequest, statusCode |-> 0,
                    response |-> NoResponse, error |-> NoHttpError]

NextHttp == SendRequest \/ ReceiveResponse

HttpSpec == InitHttp /\ [][NextHttp]_vars

\* ------------------------------------------------------------------ claims

Active == {c \in Clients : mode[c] # "off"}
Events(c) == {trace[c][i] : i \in 1..Len(trace[c])}
EventsOf(c, op) == {e \in Events(c) : e.op = op}
InRound(c, r) == {e \in Events(c) : e.round = r}

\* The history of c is complete: no round of it went unrecorded.
Complete(c) == round[c] <= MaxRounds

\* C1: whenever the list call of a round answers with an empty data array,
\* whatever has_more came with it, processBatch returns exactly
\* {signature: "", status: "paid", viewer_url: "", payouts: [], total_amount: 0,
\* has_more: false}, and the round has no build, sign or broadcast.
C1_ZeroPending ==
  \A c \in Active : \A i \in 1..Len(trace[c]) :
    LET e == trace[c][i]
    IN  (e.op = "list" /\ e.ok /\ e.ids = <<>>) =>
          /\ i < Len(trace[c])
          /\ trace[c][i + 1].op = "return"
          /\ trace[c][i + 1].round = e.round
          /\ trace[c][i + 1].result =
               [signature |-> "", status |-> "paid", viewer_url |-> "",
                payouts |-> <<>>, total_amount |-> 0, has_more |-> FALSE,
                failure_message |-> Undefined]
          /\ \A f \in InRound(c, e.round) : f.op \notin {"build", "sign", "broadcast"}

\* processBatch was called with payouts pending, got an empty page that said
\* has_more, and returned.
C1_Witness ==
  /\ mode[1] = "batch" /\ pc[1] = "done"
  /\ \E i \in Ids : status[i] = "pending"
  /\ \E e \in EventsOf(1, "list") : e.ok /\ e.ids = <<>> /\ e.has_more
  /\ ret[1].has_more = FALSE

\* C2: a requested limit above 10 reaches the list call as 10, and no build or
\* broadcast call carries more than 10 payout identifiers.
C2_BatchBound ==
  \A c \in Active :
    /\ \A e \in EventsOf(c, "list") :
         (limitOpt[c] # <<>> /\ limitOpt[c][1] > 10) => e.limit = 10
    /\ \A e \in EventsOf(c, "build") \cup EventsOf(c, "broadcast") : Len(e.ids) <= 10

\* A limit of 25 was asked for with more than 10 payouts pending, and the
\* broadcast carried 10 of them.
C2_Witness ==
  /\ limitOpt[1] = <<25>>
  /\ \E e \in EventsOf(1, "list") : Len(e.ids) = 10 /\ e.has_more
  /\ \E e \in EventsOf(1, "broadcast") : Len(e.ids) = 10

IsList(e) == e.op = "list"
IsReturn(e) == e.op = "return"
Lists(c) == SelectSeq(trace[c], IsList)
Returns(c) == SelectSeq(trace[c], IsReturn)

\* The list calls of c were three, answered has_more = true, true, false, and
\* the third round has returned.
HasMoreTrueTrueFalse(c) ==
  /\ mode[c] = "all"
  /\ Len(Lists(c)) = 3
  /\ \A k \in 1..3 : Lists(c)[k].ok
  /\ Lists(c)[1].has_more /\ Lists(c)[2].has_more /\ ~Lists(c)[3].has_more
  /\ Len(Returns(c)) = 3

\* C3 as stated: list answers with has_more = true, true, false leave exactly
\* 2 accumulated results.
C3_Original ==
  \A c \in Active : HasMoreTrueTrueFalse(c) => Len(results[c]) = 2

\* C3 (amended): when the list calls of processAll answer has_more = true,
\* true, false, processAll runs exactly three rounds and is then done; it has
\* accumulated 3 results when the third page had payouts and 2 when the third
\* page was empty.
C3_ThreeRounds ==
  \A c \in Active :
    HasMoreTrueTrueFalse(c) =>
      /\ pc[c] = "done"
      /\ trace[c][Len(trace[c])].op = "return"
      /\ Len(results[c]) = IF Lists(c)[3].ids = <<>> THEN 2 ELSE 3
      /\ \A k \in 1..Len(results[c]) : results[c][k] = Returns(c)[k].result

\* has_more was true, true, false, the third page had payouts, and three
\* results are accumulated.
C3_Witness ==
  /\ HasMoreTrueTrueFalse(1)
  /\ Lists(1)[3].ids # <<>>
  /\ faithful[1]
  /\ Len(results[1]) = 3 /\ pc[1] = "done"

\* C4: when the first round of processAll has returned and the broadcast call
\* of the second round fails, processAll ends by throwing that failure, makes
\* no further call, and what it has accumulated is exactly the first round's
\* result.
C4_SecondBroadcastFails ==
  \A c \in Active : \A e \in EventsOf(c, "broadcast") :
    (mode[c] = "all" /\ e.round = 2 /\ ~e.ok) =>
      /\ pc[c] = "threw"
      /\ err[c] = e.error
      /\ trace[c][Len(trace[c])] = e
      /\ Len(Returns(c)) = 1
      /\ results[c] = <<Returns(c)[1].result>>

\* The first round paid its payouts, the second round's broadcast failed.
C4_Witness ==
  /\ mode[1] = "all" /\ pc[1] = "threw" /\ err[1] = "timeout"
  /\ \E e \in EventsOf(1, "broadcast") : e.round = 2 /\ ~e.ok
  /\ Len(results[1]) = 1 /\ results[1][1].status = "paid"

\* C5: processAll ends at the first round whose result has has_more = false:
\* that return is the last thing it does, and it is done; if the first list
\* call answers with no payouts, processAll is done with an empty sequence
\* after that one list call.
C5_StopsAtNoMore ==
  \A c \in Active :
    mode[c] = "all" =>
      /\ \A i \in 1..Len(trace[c]) :
           (trace[c][i].op = "return" /\ ~trace[c][i].result.has_more) =>
             i = Len(trace[c]) /\ pc[c] = "done"
      /\ (Len(trace[c]) > 0 /\ trace[c][1].ok /\ trace[c][1].ids = <<>>) =>
           /\ pc[c] = "done"
           /\ results[c] = <<>>
           /\ Len(Lists(c)) = 1
           /\ Len(trace[c]) = 2

\* Payouts were pending, the first list call answered with none and with
\* has_more, and processAll is done with an empty sequence.
C5_Witness ==
  /\ mode[1] = "all" /\ pc[1] = "done" /\ results[1] = <<>>
  /\ Len(Lists(1)) = 1 /\ Lists(1)[1].ids = <<>> /\ Lists(1)[1].has_more
  /\ \E i \in Ids : status[i] = "pending"

\* C6: against a server with finitely many pending payouts, no payout created
\* meanwhile and every call answered (broadcast answers with status 'failed'
\* that leave the payouts pending included), every invocation eventually
\* returns or throws.
C6_Terminates == <>(pc[1] \in {"done", "threw"})

\* C7: when processAll has returned normally and no payout was created
\* meanwhile, no payout is still pending on the server, and every payout
\* that was pending at the start was included in a broadcast call of the
\* invocation.
C7_NoneLeftPending ==
  \A c \in Active :
    (mode[c] = "all" /\ pc[c] = "done" /\ created = 0 /\ Complete(c)) =>
      \A i \in Ids :
        status[i] # "none" =>
          /\ status[i] # "pending"
          /\ \E e \in EventsOf(c, "broadcast") :
               e.ok /\ \E j \in 1..Len(e.ids) : e.ids[j] = i

RemoteOps == {"list", "build", "broadcast"}

\* C8: a failed list, build or broadcast call is the last thing the invocation
\* does: it ends by throwing the error of that call; and no round makes the
\* same remote call twice.
C8_NoRetry ==
  \A c \in Active : \A i \in 1..Len(trace[c]) :
    LET e == trace[c][i]
    IN  e.op \in RemoteOps =>
          /\ ~e.ok => /\ i = Len(trace[c])
                      /\ pc[c] = "threw"
                      /\ err[c] = e.error
                      /\ e.error \in RemoteErrors
          /\ \A j \in 1..Len(trace[c]) :
               (trace[c][j].op = e.op /\ trace[c][j].round = e.round) => j = i

\* The build call of the second round of processAll failed.
C8_Witness ==
  /\ mode[1] = "all" /\ pc[1] = "threw" /\ err[1] = "api_error"
  /\ \E e \in EventsOf(1, "build") : e.round = 2 /\ ~e.ok
  /\ \E e \in EventsOf(1, "broadcast") : e.round = 1 /\ e.ok

\* C9: when the secret key does not decode or the unsigned transaction does
\* not parse, the sign step is the last thing the invocation does: it ends by
\* throwing the signer's error and the round has no broadcast call.
C9_SignerFailure ==
  \A c \in Active : \A i \in 1..Len(trace[c]) :
    LET e == trace[c][i]
    IN  (e.op = "sign" /\ ~(e.key_ok /\ e.parses)) =>
          /\ i = Len(trace[c])
          /\ pc[c] = "threw"
          /\ err[c] = IF e.key_ok THEN "bad_transaction" ELSE "bad_key"
          /\ \A f \in InRound(c, e.round) : f.op # "broadcast"

\* The key was good and the transaction of the second round did not parse.
C9_Witness ==
  /\ pc[1] = "threw" /\ err[1] = "bad_transaction"
  /\ \E e \in EventsOf(1, "sign") : e.round = 2 /\ e.key_ok /\ ~e.parses
  /\ \E e \in EventsOf(1, "build") : e.round = 2 /\ e.ok
  /\ EventsOf(1, "broadcast") # {}

HasPayouts(e) == e.op = "return" /\ Len(e.result.payouts) > 0
NonEmptyReturns(c) == SelectSeq(trace[c], HasPayouts)

\* C10: what processAll has accumulated is, in round order, exactly the
\* results of the rounds that returned a non-empty payouts list; and after
\* every return, of a zero-payout round too, another round is run if and
\* only if the result said has_more.
C10_NonEmptyRounds ==
  \A c \in Active :
    (mode[c] = "all" /\ Complete(c)) =>
      /\ Len(results[c]) = Len(NonEmptyReturns(c))
      /\ \A k \in 1..Len(results[c]) : results[c][k] = NonEmptyReturns(c)[k].result
      /\ \A i \in 1..Len(trace[c]) :
           trace[c][i].op = "return" =>
             IF trace[c][i].result.has_more
               THEN i < Len(trace[c]) \/ pc[c] = "list"
               ELSE i = Len(trace[c]) /\ pc[c] = "done"

\* processAll is done after a round that paid its payouts and a round whose
\* page was empty: one result is accumulated for two rounds.
C10_Witness ==
  /\ mode[1] = "all" /\ pc[1] = "done"
  /\ Len(Returns(1)) = 2 /\ Len(results[1]) = 1
  /\ Returns(1)[2].result.payouts = <<>>
  /\ results[1][1] = Returns(1)[1].result

SeqSet(q) == {q[j] : j \in 1..Len(q)}
IdSet(ps) == {ps[j].id : j \in 1..Len(ps)}

SharedIds ==
  {i \in Ids :
     \A c \in Clients :
       /\ \E e \in EventsOf(c, "list") : e.ok /\ i \in SeqSet(e.ids)
       /\ \E e \in EventsOf(c, "build") : i \in SeqSet(e.ids)
       /\ \E e \in EventsOf(c, "broadcast") : i \in SeqSet(e.ids)}

\* C12: the client provides no mutual exclusion between invocations: with two
\* processAll invocations running side by side, the next step of each is
\* possible whatever the other one is in the middle of, and what an invocation
\* builds and broadcasts is what its own list call answered, whether or not
\* the other invocation holds the same identifiers.
C12_NoMutualExclusion ==
  \A c \in Clients :
    /\ pc[c] = "list" => ENABLED ListCallTrue(c)
    /\ pc[c] = "build" => ENABLED BuildCall(c)
    /\ pc[c] = "sign" => ENABLED SignStep(c)
    /\ pc[c] = "broadcast" => ENABLED BroadcastCall(c)
    /\ \A e \in EventsOf(c, "build") \cup EventsOf(c, "broadcast") :
         \E l \in EventsOf(c, "list") : l.round = e.round /\ l.ok /\ l.ids = e.ids

\* Both invocations have listed the same payout identifier and both have
\* issued an answered build call and a broadcast call that include it.
C12_Witness ==
  /\ \A c \in Clients : mode[c] = "all"
  /\ \E i \in SharedIds :
       \A c \in Clients :
         /\ \E e \in EventsOf(c, "build") : e.ok /\ i \in SeqSet(e.ids)
         /\ \E e \in EventsOf(c, "broadcast") : e.ok /\ i \in SeqSet(e.ids)

\* The payouts an invocation's broadcasts settled, as the results of its
\* rounds report them.
SettledBy(c) ==
  {p \in UNION {SeqSet(e.result.payouts) : e \in EventsOf(c, "return")} :
     p.status \in {"paid", "failed"}}

\* C13: after a processAll invocation has thrown, every payout that a
\* broadcast of its earlier rounds settled still has the status it was settled
\* with, and a processAll invocation made afterwards starts with a list call,
\* builds and broadcasts only what its own list calls answered, and never
\* includes one of those settled payouts in a list answer, a build call or a
\* broadcast call.
C13_SettledStaySettled ==
  (mode[1] = "all" /\ pc[1] = "threw") =>
    /\ \A p \in SettledBy(1) : status[p.id] = p.status
    /\ mode[2] = "all" =>
         /\ Len(trace[2]) > 0 => trace[2][1].op = "list"
         /\ \A e \in EventsOf(2, "build") \cup EventsOf(2, "broadcast") :
              \E l \in EventsOf(2, "list") : l.round = e.round /\ l.ok /\ l.ids = e.ids
         /\ \A e \in EventsOf(2, "list") \cup EventsOf(2, "build")
                      \cup EventsOf(2, "broadcast") :
              \A p \in SettledBy(1) : p.id \notin SeqSet(e.ids)

\* The first invocation paid its first round and threw in its second; the
\* second invocation has broadcast the payouts that were left and is done.
C13_Witness ==
  /\ mode[1] = "all" /\ pc[1] = "threw" /\ round[1] = 2
  /\ \E p \in SettledBy(1) : p.status = "paid"
  /\ mode[2] = "all" /\ pc[2] = "done"
  /\ \E e \in EventsOf(2, "broadcast") : e.ok /\ e.ids # <<>>
  /\ \A i \in Ids : status[i] # "pending"

\* ---------------------------------------------------------- webhook claims

\* The v1 values of a header as a reader of the header sees them: the values
\* of the pairs with key v1, in the order they are written.
IsV1Pair(item) ==
  LET parts == Split(item, EqualsSign)
  IN  parts[1] = KeyV1 /\ Len(parts) >= 2 /\ parts[2] # <<>>

V1Values(header) ==
  LET pairs == SelectSeq(Split(header, Comma), IsV1Pair)
  IN  [j \in 1..Len(pairs) |-> Split(pairs[j], EqualsSign)[2]]

IsTPair(item) ==
  LET parts == Split(item, EqualsSign)
  IN  parts[1] = KeyT /\ Len(parts) >= 2 /\ parts[2] # <<>>

TValues(header) ==
  LET pairs == SelectSeq(Split(header, Comma), IsTPair)
  IN  [j \in 1..Len(pairs) |-> Split(pairs[j], EqualsSign)[2]]

\* The call has a t and a v1 value to work with.
HasBoth == TValues(webhook.header) # <<>> /\ V1Values(webhook.header) # <<>>

\* The signature the call expects for payload p.
ExpectedFor(p) ==
  ExpectedSignature(webhook.secret,
                    SignedPayload(ParseInt(TValues(webhook.header)[1]), p))

SomeV1Matches(p) ==
  LET values   == V1Values(webhook.header)
      expected == ExpectedFor(p)
  IN  \E j \in 1..Len(values) : values[j] = expected

VerifyDone == webhook.pc \in {"parse", "returned", "threw"}
VerifyFailed ==
  webhook.pc = "threw" /\ webhook.error.name = "WebhookSignatureVerificationError"
VerifyPassed == VerifyDone /\ ~VerifyFailed

\* The header carries one t value written as the digits of the integer t.
TimestampIs(t) == TValues(webhook.header) = << <<Digits(t, "")>> >>

\* C14: with a tolerance above 0 and a header that carries one integer
\* timestamp t and a v1 value matching the payload, the verification passes
\* when t = now - tolerance, and fails with the message of the tolerance test
\* when t = now - tolerance - 1.
C14_ToleranceBoundary ==
  LET tolerance == ToleranceOf(webhook.tolerance)
  IN  (VerifyDone /\ tolerance > 0 /\ HasBoth /\ SomeV1Matches(webhook.payload)) =>
        /\ TimestampIs(webhook.now - tolerance) => VerifyPassed
        /\ TimestampIs(webhook.now - tolerance - 1) =>
             VerifyFailed /\ webhook.error.message = ToleranceMessage

\* The tolerance argument was left out, the timestamp is 300 seconds old, and
\* the event was returned.
C14_Witness ==
  /\ webhook.pc = "returned" /\ webhook.tolerance = <<>>
  /\ TimestampIs(webhook.now - 300)
  /\ webhook.event # NoEvent

\* C15: with a tolerance of 0 the call never fails with the message of the
\* tolerance test, and the verification passes exactly when the header has a t
\* value and a v1 value and one of the v1 values is the expected signature.
C15_ZeroToleranceNoFreshness ==
  (VerifyDone /\ ToleranceOf(webhook.tolerance) = 0) =>
    /\ webhook.error.message # ToleranceMessage
    /\ VerifyPassed <=> (HasBoth /\ SomeV1Matches(webhook.payload))

\* With tolerance 0 a timestamp 301 seconds old was accepted.
C15_Witness ==
  /\ webhook.pc = "returned" /\ webhook.tolerance = <<0>>
  /\ TimestampIs(webhook.now - 301)

\* C16: ParseHeader keeps every v1 value in the order written, as one string
\* when there is one and as an array when there are more; and a call that has
\* a t and a v1 value and passes the tolerance test is verified if and only if
\* at least one of the v1 values equals the expected signature.
C16_AnyCandidateMatches ==
  LET details == ParseHeader(webhook.header)
      values  == V1Values(webhook.header)
  IN  /\ KeyV1 \in DOMAIN details <=> values # <<>>
      /\ KeyV1 \in DOMAIN details =>
           /\ details[KeyV1].items = values
           /\ details[KeyV1].isArray <=> Len(values) > 1
      /\ (VerifyDone /\ HasBoth /\ webhook.error.message # ToleranceMessage) =>
           (VerifyPassed <=> SomeV1Matches(webhook.payload))

\* The header had two v1 values, the first the signature under the old secret
\* and the second the expected signature, and the event was returned.
C16_Witness ==
  /\ webhook.pc = "returned"
  /\ Len(V1Values(webhook.header)) = 2
  /\ V1Values(webhook.header)[1] # ExpectedFor(webhook.payload)
  /\ V1Values(webhook.header)[1][1].s = OldSecret
  /\ V1Values(webhook.header)[2] = ExpectedFor(webhook.payload)

\* What the same call answers for another payload.
VerifyOther(p) ==
  Verify(p, webhook.header, webhook.secret, ToleranceOf(webhook.tolerance), webhook.now)

\* C17 as stated: when the header verifies for the payload, it fails with the
\* mismatch message for every other payload.
C17_Original ==
  VerifyPassed =>
    \A p \in Payloads \ {webhook.payload} :
      LET other == VerifyOther(p)
      IN  ~other.ok /\ other.message = MismatchMessage

\* C17 (amended): when the header verifies for payload P, then for every other
\* payload P' no v1 value that matched for P matches for P', and the call with
\* P' fails with the mismatch message unless the header carries another v1
\* value that is the expected signature of P'; and no call passes the
\* verification for a payload whose expected signature is none of the v1 values.
C17_TamperedPayload ==
  VerifyPassed =>
    LET values == V1Values(webhook.header)
        mine   == ExpectedFor(webhook.payload)
    IN  /\ TValues(webhook.header) # <<>>
        /\ \E j \in 1..Len(values) : values[j] = mine
        /\ \A p \in Payloads \ {webhook.payload} :
             LET other == VerifyOther(p)
                 theirs == ExpectedFor(p)
             IN  /\ \A j \in 1..Len(values) : values[j] = mine => values[j] # theirs
                 /\ other.ok <=> \E j \in 1..Len(values) : values[j] = theirs
                 /\ ~other.ok => other.message = MismatchMessage

\* The header verified for its payload, and every other payload fails with
\* the mismatch message under the same header and secret.
C17_Witness ==
  /\ webhook.pc = "returned"
  /\ \A p \in Payloads \ {webhook.payload} :
       LET other == VerifyOther(p)
       IN  ~other.ok /\ other.message = MismatchMessage

\* C18: the payload is parsed only after the verification has passed: a call
\* whose verification failed has parsed nothing and returns no event, a call
\* that has parsed had all three tests of the verification pass, and a
\* verified payload that is no JSON makes the call fail with a SyntaxError,
\* which is not the WebhookSignatureVerificationError.
C18_ParseAfterVerify ==
  LET parsed == \E j \in 1..Len(webhook.checks) : webhook.checks[j] = "parse"
  IN  /\ VerifyFailed => ~parsed /\ webhook.event = NoEvent
      /\ parsed =>
           /\ webhook.checks = <<"present", "fresh", "match", "parse">>
           /\ HasBoth /\ SomeV1Matches(webhook.payload)
      /\ webhook.pc = "returned" => parsed /\ webhook.event # NoEvent
      /\ (parsed /\ webhook.payload = PayloadNotJson) =>
           /\ webhook.pc = "threw"
           /\ webhook.error.name = "SyntaxError"
           /\ webhook.error.name # VerificationError(MismatchMessage, <<>>).name
           /\ webhook.event = NoEvent

\* A payload that is no JSON was verified and the call threw a SyntaxError.
C18_Witness ==
  /\ webhook.payload = PayloadNotJson
  /\ webhook.checks = <<"present", "fresh", "match", "parse">>
  /\ webhook.pc = "threw" /\ webhook.error.name = "SyntaxError"

\* ----------------------------------------------------------- signer claims

InputTransaction == TransactionFrom(FromBase64(signing.unsignedTransaction))
InputKeypair == DecodeKeypair(signing.secretKey)

\* The input parses, the key decodes to one of its signers, that signer has
\* not signed, and every other slot is empty or holds its signer's signature.
SignableInput ==
  /\ InputTransaction.ok /\ InputKeypair.ok
  /\ \E j \in 1..Len(InputTransaction.signatures) :
       /\ InputTransaction.signatures[j].publicKey = InputKeypair.publicKey
       /\ InputTransaction.signatures[j].signature = EmptySignature
  /\ \A j \in 1..Len(InputTransaction.signatures) :
       InputTransaction.signatures[j].signature \in
         {EmptySignature,
          SignatureBytes(InputTransaction.signatures[j].publicKey, InputTransaction.message)}

\* The output parses to the input transaction with the key's signature added.
OneMoreSignature ==
  /\ signing.reparsed.ok
  /\ SignatureCount(signing.reparsed) = SignatureCount(InputTransaction) + 1
  /\ signing.reparsed.message = InputTransaction.message
  /\ Len(signing.reparsed.signatures) = Len(InputTransaction.signatures)
  /\ \A j \in 1..Len(InputTransaction.signatures) :
       IF InputTransaction.signatures[j].publicKey = InputKeypair.publicKey
         THEN signing.reparsed.signatures[j].signature =
                SignatureBytes(InputKeypair.publicKey, InputTransaction.message)
         ELSE signing.reparsed.signatures[j] = InputTransaction.signatures[j]

\* C19: signing a transaction that parses, with the key of one of its signers
\* that has not signed yet, returns a signed transaction, and re-parsing it
\* gives the input transaction with exactly one more signature: the same
\* message and the same signatures that were there before.
C19_RoundTrip ==
  (signing.pc # "sign" /\ SignableInput) =>
    /\ signing.pc \in {"returned", "reparsed"}
    /\ signing.pc = "reparsed" => OneMoreSignature

\* Whenever the signer does return for such an input, the round trip gives
\* the input transaction with exactly one more signature.
C19_RoundTripWhenReturned ==
  (signing.pc = "reparsed" /\ SignableInput) => OneMoreSignature

\* A transaction with two signers, the other of which had signed, was signed
\* and re-parsed with two signatures.
C19_Returned ==
  /\ signing.pc = "reparsed" /\ SignableInput
  /\ SignatureCount(InputTransaction) = 1 /\ SignatureCount(signing.reparsed) = 2

\* A transaction with two signers and no signature was given to the signer
\* with the key of one of them, and the signer threw.
C19_Threw ==
  /\ signing.pc = "threw" /\ SignableInput
  /\ Len(InputTransaction.signatures) = 2 /\ SignatureCount(InputTransaction) = 0
  /\ signing.error = "signature_verification_failed"

\* ------------------------------------------------------------- http claims

\* C20: when retrieve or list of BalanceTransactions is called with
\* options.zonelessAccount set, the request that is sent carries the
\* connected-account header with that account identifier.
C20_AccountHeaderSent ==
  (http.pc # "call" /\ Truthy(StringProperty(http.options, "zonelessAccount"))) =>
    ConnectedAccount(http.request) = http.options.zonelessAccount

\* retrieve was called for a connected account and the request was sent with
\* the API key and the content type as its only headers.
C20_HeaderDropped ==
  /\ http.pc = "returned" /\ http.call = "retrieve"
  /\ http.options = ("zonelessAccount" :> "acct_1")
  /\ DOMAIN http.request.headers = {"x-api-key", "Content-Type"}


\* ----------------------------------------------------- order of the steps

\* The event before the i-th of c's history.
Before(c, i) == trace[c][i - 1]

\* C21: the calls of an invocation happen one after the other: a round starts
\* with its list call, its build call follows the answered list call, its sign
\* step the answered build call, its broadcast call the sign step, and its
\* return the answered broadcast call (or the list call that answered with no
\* payouts); the list call of a round of processAll follows the return of the
\* round before it, hence that round's broadcast; processBatch called directly
\* makes one round; and an invocation is waiting for nothing but the step
\* that follows its last one.
C21_StepOrder ==
  \A c \in Active :
    /\ \A i \in 1..Len(trace[c]) :
         LET e == trace[c][i]
         IN  /\ i = 1 => e.op = "list" /\ e.round = 1
             /\ mode[c] = "batch" => e.round = 1
             /\ i > 1 =>
                  LET p == Before(c, i)
                  IN  CASE e.op = "list" ->
                             /\ mode[c] = "all"
                             /\ p.op = "return" /\ p.result.has_more
                             /\ e.round = p.round + 1
                        [] e.op = "build" ->
                             p.op = "list" /\ p.ok /\ p.ids # <<>> /\ p.round = e.round
                        [] e.op = "sign" ->
                             p.op = "build" /\ p.ok /\ p.round = e.round
                        [] e.op = "broadcast" ->
                             p.op = "sign" /\ p.ok /\ p.round = e.round
                        [] e.op = "return" ->
                             /\ p.round = e.round
                             /\ \/ p.op = "broadcast" /\ p.ok
                                \/ p.op = "list" /\ p.ok /\ p.ids = <<>>
    /\ (Complete(c) /\ Len(trace[c]) > 0) =>
         LET last == trace[c][Len(trace[c])]
         IN  CASE pc[c] = "list" -> last.op = "return" /\ last.round + 1 = round[c]
               [] pc[c] = "build" -> last.op = "list" /\ last.ok /\ last.round = round[c]
               [] pc[c] = "sign" -> last.op = "build" /\ last.ok /\ last.round = round[c]
               [] pc[c] = "broadcast" -> last.op = "sign" /\ last.ok /\ last.round = round[c]
               [] pc[c] = "done" -> last.op = "return"
               [] pc[c] = "threw" -> ~last.ok

\* processAll has run two full rounds: list, build, sign, broadcast and return
\* of round 1, then the same five of round 2.
C21_Witness ==
  /\ mode[1] = "all" /\ Len(trace[1]) >= 10
  /\ \A k \in 0..1 :
       /\ trace[1][5 * k + 1].op = "list" /\ trace[1][5 * k + 2].op = "build"
       /\ trace[1][5 * k + 3].op = "sign" /\ trace[1][5 * k + 4].op = "broadcast"
       /\ trace[1][5 * k + 5].op = "return"
       /\ \A j \in 1..5 : trace[1][5 * k + j].round = k + 1


\* The identifiers of the payouts of a list answer, in the order received.
ReceivedIds(list) == [j \in 1..Len(list.data) |-> list.data[j].id]

\* C22: in a round whose list call answered with payouts, the identifiers sent
\* to build are the identifiers of the payouts of that answer in the order
\* received, and the identifiers sent to broadcast are that same list: nothing
\* is added, dropped or reordered between list, build and broadcast.
C22_SameIdentifiers ==
  \A c \in Active :
    /\ pc[c] \in {"build", "sign", "broadcast"} =>
         payoutIds[c] = ReceivedIds(pendingPayouts[c])
    /\ \A i \in 1..Len(trace[c]) :
         LET e == trace[c][i]
         IN  /\ e.op = "build" =>
                  /\ i > 1
                  /\ LET l == trace[c][i - 1]
                     IN  /\ l.op = "list" /\ l.round = e.round /\ l.ok
                         /\ l.ids # <<>> /\ e.ids = l.ids
             /\ e.op = "broadcast" =>
                  /\ i > 3
                  /\ LET l == trace[c][i - 3]
                         b == trace[c][i - 2]
                     IN  /\ l.op = "list" /\ l.round = e.round /\ l.ok /\ e.ids = l.ids
                         /\ b.op = "build" /\ b.round = e.round /\ b.ok /\ e.ids = b.ids
             /\ (e.op = "list" /\ e.ok /\ e.ids # <<>> /\ i < Len(trace[c])) =>
                  /\ trace[c][i + 1].op = "build" /\ trace[c][i + 1].round = e.round
                  /\ trace[c][i + 1].ids = e.ids

\* A round listed three payouts, newest first, and sent the same three in
\* that order to build and to an answered broadcast.
C22_Witness ==
  /\ Len(trace[1]) >= 4
  /\ trace[1][1].op = "list" /\ trace[1][1].ids = <<3, 2, 1>>
  /\ trace[1][2].op = "build" /\ trace[1][2].ids = <<3, 2, 1>>
  /\ trace[1][4].op = "broadcast" /\ trace[1][4].ids = <<3, 2, 1>> /\ trace[1][4].ok


\* C23: a round whose list call answered with payouts and whose broadcast call
\* was answered returns a result with signature, status, viewer_url, payouts
\* and failure_message as in the broadcast answer, total_amount as in the build
\* answer and has_more as in the list answer of that round; an answer with
\* status 'failed' is returned like any other and is not thrown.
C23_ResultFields ==
  \A c \in Active : \A i \in 1..Len(trace[c]) :
    LET b == trace[c][i]
    IN  (b.op = "broadcast" /\ b.ok) =>
          /\ i > 3 /\ i < Len(trace[c])
          /\ trace[c][i + 1].op = "return" /\ trace[c][i + 1].round = b.round
          /\ LET r == trace[c][i + 1].result
                 build == trace[c][i - 2]
                 list == trace[c][i - 3]
             IN  /\ list.op = "list" /\ list.round = b.round
                 /\ build.op = "build" /\ build.round = b.round
                 /\ r.signature = b.answer.signature
                 /\ r.status = b.answer.status
                 /\ r.viewer_url = b.answer.viewer_url
                 /\ r.payouts = b.answer.payouts
                 /\ r.failure_message = b.answer.failure_message
                 /\ r.total_amount = build.total_amount
                 /\ r.has_more = list.has_more
                 /\ DOMAIN r = {"signature", "status", "viewer_url", "payouts",
                                "total_amount", "has_more", "failure_message"}
          /\ (b.answer.status = "failed" /\ Complete(c) /\ i + 1 = Len(trace[c])) =>
               /\ pc[c] \in {"list", "done"} /\ err[c] = Undefined
               /\ ret[c] = trace[c][i + 1].result /\ ret[c].status = "failed"

\* processBatch was called directly with three payouts pending, the list
\* answer said has_more, the broadcast answered 'failed', and the call
\* returned that as its result.
C23_Witness ==
  /\ mode[1] = "batch" /\ pc[1] = "done" /\ err[1] = Undefined
  /\ ret[1].status = "failed" /\ ret[1].failure_message = "message"
  /\ ret[1].has_more /\ ret[1].total_amount = 306
  /\ Len(ret[1].payouts) = 3 /\ ret[1].signature = "sig"


\* ------------------------------------------- webhook claims: order, freshness

\* The integer the first t value of the header parses to, <<>> when it does
\* not parse to one.
ParsedTimestamp == ParseInt(TValues(webhook.header)[1])

\* The first t value is an integer older than the tolerance, and the tolerance
\* is above 0.
Stale ==
  /\ ToleranceOf(webhook.tolerance) > 0
  /\ ParsedTimestamp # <<>>
  /\ webhook.now - ParsedTimestamp[1] > ToleranceOf(webhook.tolerance)

\* C24: the tests of the verification run in a fixed order.  A header without
\* a t value or without a v1 value fails with the missing-signature message
\* and nothing else was tested; a header with both that is stale fails with
\* the tolerance message and no signature was compared; and the mismatch
\* message is raised only for a header that has both and is not stale.
C24_ValidationOrder ==
  VerifyDone =>
    /\ ~HasBoth =>
         /\ VerifyFailed /\ webhook.error.message = MissingMessage
         /\ webhook.checks = <<"present">>
    /\ (HasBoth /\ Stale) =>
         /\ VerifyFailed /\ webhook.error.message = ToleranceMessage
         /\ webhook.checks = <<"present", "fresh">>
    /\ (VerifyFailed /\ webhook.error.message = MismatchMessage) =>
         /\ HasBoth /\ ~Stale /\ ~SomeV1Matches(webhook.payload)
         /\ webhook.checks = <<"present", "fresh", "match">>
    /\ VerifyFailed =>
         webhook.error.message \in {MissingMessage, ToleranceMessage, MismatchMessage}

\* A stale header none of whose two v1 values matches failed with the
\* tolerance message.
C24_Witness ==
  /\ webhook.pc = "threw" /\ webhook.error.message = ToleranceMessage
  /\ HasBoth /\ Stale
  /\ Len(V1Values(webhook.header)) = 2 /\ ~SomeV1Matches(webhook.payload)


\* C30: a call whose header has a t and a v1 value fails with the tolerance
\* message if and only if the tolerance is above 0, the first t value parses to
\* an integer t and now - t > tolerance.  A timestamp in the future, a
\* tolerance below 0 and a t value that parses to no integer therefore never
\* give the tolerance message, and for such calls the verification passes
\* exactly when one of the v1 values is the expected signature.
C30_OneSidedFreshness ==
  (VerifyDone /\ HasBoth) =>
    LET tolerance == ToleranceOf(webhook.tolerance)
        toleranceError == VerifyFailed /\ webhook.error.message = ToleranceMessage
        exempt == \/ tolerance < 0
                  \/ ParsedTimestamp = <<>>
                  \/ ParsedTimestamp # <<>> /\ ParsedTimestamp[1] > webhook.now
    IN  /\ toleranceError <=>
             /\ tolerance > 0
             /\ ParsedTimestamp # <<>>
             /\ webhook.now - ParsedTimestamp[1] > tolerance
        /\ exempt =>
             /\ ~toleranceError
             /\ VerifyPassed <=> SomeV1Matches(webhook.payload)
             /\ ~VerifyPassed => webhook.error.message = MismatchMessage

\* With the default tolerance, a header whose t value is a word and whose v1
\* value is the signature the call expects for it was accepted.
C30_Witness ==
  /\ webhook.pc = "returned" /\ webhook.tolerance = <<>>
  /\ TValues(webhook.header) = << <<Text("soon")>> >>
  /\ ParsedTimestamp = <<>>
  /\ SomeV1Matches(webhook.payload)

\* A timestamp one second in the future was accepted with the default
\* tolerance, and a timestamp 301 seconds old with a tolerance of -1.
C30_FutureAccepted ==
  /\ webhook.pc = "returned" /\ webhook.tolerance = <<>>
  /\ TimestampIs(webhook.now + 1)

C30_NegativeToleranceAccepted ==
  /\ webhook.pc = "returned" /\ webhook.tolerance = <<-1>>
  /\ TimestampIs(webhook.now - 301)


\* The t value of the header as it is written (the first one when there are
\* several).
HeaderTimestamp == TValues(webhook.header)[1]

\* The hex HMAC-SHA256 under the secret of the header's t value, a dot and
\* the payload.
SignatureOfHeaderCharacters ==
  ExpectedSignature(webhook.secret, HeaderTimestamp \o <<Dot>> \o webhook.payload)

\* C25: the signature the call expects is the hex HMAC-SHA256, under the
\* secret, of the t value as the header carries it, a dot and the payload: a
\* call that reaches the comparison is verified if and only if one of its v1
\* values is that signature, for every t value (leading zeros, trailing
\* characters that are no digits, several t pairs).
C25_SignsHeaderCharacters ==
  (VerifyDone /\ HasBoth /\ webhook.error.message # ToleranceMessage) =>
    /\ ExpectedFor(webhook.payload) = SignatureOfHeaderCharacters
    /\ VerifyPassed <=>
         \E j \in 1..Len(V1Values(webhook.header)) :
           V1Values(webhook.header)[j] = SignatureOfHeaderCharacters

\* A header whose only v1 value is the HMAC of its t characters, a dot and the
\* payload under the secret was rejected: the t value has a leading zero.
C25_GenuineRejected ==
  /\ webhook.pc = "threw" /\ webhook.error.message = MismatchMessage
  /\ HeaderTimestamp = <<Digits(webhook.now, "0")>>
  /\ V1Values(webhook.header) = <<SignatureOfHeaderCharacters>>

\* A header with t=<digits>s was accepted with a v1 value that is the HMAC of
\* the digits, a dot and the payload, and not of the t characters.
C25_OtherStringAccepted ==
  /\ webhook.pc = "returned"
  /\ HeaderTimestamp = <<Digits(webhook.now, ""), Text("s")>>
  /\ \A j \in 1..Len(V1Values(webhook.header)) :
       V1Values(webhook.header)[j] # SignatureOfHeaderCharacters

\* For a t value written as the plain digits of an integer the two agree.
C25_PlainDigits ==
  (HasBoth /\ Len(HeaderTimestamp) = 1 /\ HeaderTimestamp[1].k = "digits" /\ HeaderTimestamp[1].s = "") =>
    ExpectedFor(webhook.payload) = SignatureOfHeaderCharacters


\* ---------------------------------------------- claims about repeated rounds

\* C27: within one processAll invocation, with no payout created meanwhile and
\* every list call answered truly, no payout identifier is submitted in more
\* than one broadcast call, also when an earlier broadcast was answered with
\* status 'failed'.
C27_NoIdBroadcastTwice ==
  \A c \in Active :
    mode[c] = "all" =>
      \A e \in EventsOf(c, "broadcast") : \A f \in EventsOf(c, "broadcast") :
        e.round # f.round => SeqSet(e.ids) \cap SeqSet(f.ids) = {}

\* An identifier is submitted again only after a broadcast whose answer had
\* status 'failed' and reported the payout as still pending.
C27_OnlyWhenLeftPending ==
  \A c \in Active :
    mode[c] = "all" =>
      \A e \in EventsOf(c, "broadcast") : \A f \in EventsOf(c, "broadcast") :
        e.round < f.round =>
          \A i \in SeqSet(e.ids) \cap SeqSet(f.ids) :
            /\ e.ok /\ e.answer.status = "failed"
            /\ \E j \in 1..Len(e.answer.payouts) :
                 e.answer.payouts[j].id = i /\ e.answer.payouts[j].status = "pending"

\* Six payouts were pending and the pages have five; the broadcast of round 1
\* answered 'failed', and round 2 listed the same five payouts and submitted
\* them in a second answered broadcast.
C27_BroadcastTwice ==
  /\ mode[1] = "all" /\ faithful[1] /\ created = 0
  /\ \E e \in EventsOf(1, "broadcast") : \E f \in EventsOf(1, "broadcast") :
       /\ e.round = 1 /\ f.round = 2 /\ f.ok
       /\ e.ids = <<6, 5, 4, 3, 2>> /\ f.ids = <<6, 5, 4, 3, 2>>


\* C29: the secret key is decoded in the sign step and nowhere before it.  With
\* a secret key that does not decode, an invocation whose list call answers
\* with no payouts returns the zero result (processAll: the empty sequence),
\* and an invocation whose list call answers with payouts makes its list call
\* and its build call before it ends with the key error in the sign step,
\* without a broadcast call.
C29_KeyUsedInSignStepOnly ==
  \A c \in Active :
    ~secretOk[c] =>
      /\ EventsOf(c, "broadcast") = {}
      /\ err[c] \in {Undefined, "bad_key"} \cup RemoteErrors
      /\ err[c] = "bad_key" <=> \E e \in EventsOf(c, "sign") : TRUE
      /\ \A i \in 1..Len(trace[c]) :
           trace[c][i].op = "sign" =>
             /\ i = 3 /\ i = Len(trace[c])
             /\ trace[c][1].op = "list" /\ trace[c][1].ok /\ trace[c][1].ids # <<>>
             /\ trace[c][2].op = "build" /\ trace[c][2].ok
             /\ trace[c][2].ids = trace[c][1].ids
             /\ ~trace[c][3].key_ok /\ trace[c][3].error = "bad_key"
             /\ pc[c] = "threw"
      /\ (Len(trace[c]) > 0 /\ trace[c][1].ok /\ trace[c][1].ids = <<>>) =>
           /\ pc[c] = "done" /\ err[c] = Undefined
           /\ ret[c] = ZeroResult
           /\ mode[c] = "all" => results[c] = <<>>
      /\ (Len(trace[c]) > 1 /\ trace[c][2].op = "build" /\ trace[c][2].ok) =>
           pc[c] = "sign" \/ err[c] = "bad_key"

\* processAll was called with a secret key that does not decode and three
\* payouts pending: the list call and the build call were answered, and the
\* sign step threw the key error.
C29_Witness ==
  /\ mode[1] = "all" /\ ~secretOk[1] /\ pc[1] = "threw" /\ err[1] = "bad_key"
  /\ Len(trace[1]) = 3
  /\ trace[1][1].op = "list" /\ trace[1][1].ids = <<3, 2, 1>>
  /\ trace[1][2].op = "build" /\ trace[1][2].ok
  /\ trace[1][3].op = "sign"

\* processAll was called with a secret key that does not decode and nothing
\* pending, and returned the empty sequence.
C29_NothingPending ==
  /\ mode[1] = "all" /\ ~secretOk[1] /\ pc[1] = "done" /\ results[1] = <<>>
  /\ \A i \in Ids : status[i] = "none"


\* ------------------------------------------------- claims about HttpClient

HttpDone == http.pc \in {"returned", "threw"}
IsJson(body) == body.kind # "text"

\* The error carries what the error object of the body has.
CarriesErrorObject(error, body) ==
  body.hasError =>
    /\ Truthy(body.error.type) => error.type = body.error.type
    /\ Truthy(body.error.message) => error.message = body.error.message
    /\ error.code = body.error.code
    /\ error.param = body.error.param

\* C26: Request returns data only for a response with an OK status and a JSON
\* body; every response that is not OK and every response whose body is no
\* JSON is raised as a ZonelessApiError that carries the status code of the
\* response, and the type, message, code and param of the body's error object
\* when it has one.
C26_ErrorsAreZonelessApiErrors ==
  HttpDone =>
    /\ http.pc = "returned" <=> (http.response.ok /\ IsJson(http.response.body))
    /\ http.pc = "threw" =>
         /\ http.error.name = "ZonelessApiError"
         /\ http.error.statusCode = http.response.status
         /\ CarriesErrorObject(http.error, http.response.body)

\* What holds of every response: data is returned exactly for an OK status
\* with a JSON body, anything else is thrown, and what is thrown is a
\* ZonelessApiError with the status code unless the status is not OK and the
\* body is the JSON value null.
C26_ExceptNullBody ==
  HttpDone =>
    /\ http.pc = "returned" <=> (http.response.ok /\ IsJson(http.response.body))
    /\ (http.pc = "threw" /\ ~(~http.response.ok /\ http.response.body = NullBody)) =>
         /\ http.error.name = "ZonelessApiError"
         /\ http.error.statusCode = http.response.status
         /\ CarriesErrorObject(http.error, http.response.body)

\* A response with status 500 and the body null was raised as a TypeError,
\* which has no status code.
C26_TypeErrorRaised ==
  /\ http.pc = "threw" /\ http.response.status = 500 /\ http.response.body = NullBody
  /\ http.error.name = "TypeError" /\ http.error.statusCode = 0


\* ------------------------------------------- claims about the request options

\* The idempotency key the caller supplied, undefined when there is none.
SuppliedKey(c) == StringProperty(requestOptions[c], "idempotencyKey")

\* The idempotency-key header of a request, undefined when it has none.
KeyHeader(e) == StringProperty(e.headers, "idempotency-key")

\* C28: when the caller supplies an idempotency key in the request options,
\* every build call and every broadcast call of the invocation, in every round,
\* is sent with that key in its idempotency-key header, and no list call is
\* sent with an idempotency-key header; without a key no call has the header.
C28_SameKeyOnEveryPost ==
  \A c \in Active : \A i \in 1..Len(trace[c]) :
    LET e == trace[c][i]
    IN  /\ e.op = "list" => ~Has(e.headers, "idempotency-key")
        /\ e.op \in {"build", "broadcast"} =>
             IF Truthy(SuppliedKey(c))
               THEN KeyHeader(e) = SuppliedKey(c)
               ELSE ~Has(e.headers, "idempotency-key")

\* processAll was called with the idempotency key key_1 and has made two
\* rounds: both build calls and both broadcast calls were sent with key_1,
\* the two list calls without a key.
C28_Witness ==
  /\ mode[1] = "all" /\ SuppliedKey(1) = "key_1" /\ Len(trace[1]) >= 9
  /\ \A k \in 0..1 :
       /\ trace[1][5 * k + 1].op = "list" /\ KeyHeader(trace[1][5 * k + 1]) = Undefined
       /\ trace[1][5 * k + 2].op = "build" /\ KeyHeader(trace[1][5 * k + 2]) = "key_1"
       /\ trace[1][5 * k + 4].op = "broadcast" /\ KeyHeader(trace[1][5 * k + 4]) = "key_1"
       /\ trace[1][5 * k + 4].round = k + 1

====
